---- MODULE Spec2Model ----
(***************************************************************************)
(* Balance ledger, deposit-request workflow, order lifecycle and the       *)
(* order-status reconciliation job of the Sociallabs VPS backend.          *)
(*                                                                         *)
(* Every store round trip (one awaited prisma call, or one                 *)
(* prisma.$transaction batch) is one atomic step; handlers that read a     *)
(* mutable column in one round trip and write in a later one are split at  *)
(* that await, so that other handlers interleave between the two.  A store *)
(* call may throw; the boolean input `ok` of a writing step chooses        *)
(* between the commit and the throw.                                       *)
(***************************************************************************)
EXTENDS Integers, Sequences, FiniteSets, TLC

\* ------------------------------------------------------------------ bounds
MaxOrders == 1
MaxDeposits == 1
MaxAttempts == 2
MaxTx == 4
MaxRuns == 2
MaxBacklog == 2
MaxTime == 40
MaxUpdates == 2
MaxPolls == 2
MaxPasses == 2
MaxRequests == 2
MaxInvalidations == 1
TimeStep == 5000
MaxNow == 15000

\* ------------------------------------------------------- program constants
BatchSize == 100
RetentionDays == 30

\* ------------------------------------------------------------ input domains
Users == {"u1", "u2"}
Admins == {"admin1"}
\* The amount of a deposit request as the user sends it: none, a negative
\* number, a positive number.
DepositAmounts == {0, -5000, 10000}
Quantities == {1000}
ProviderOrderIds == {7001}
AdminNotes == {"undefined", "checked"}
\* The users who file deposit requests.
Depositors == {"u1"}
Null == 0
NullId == "null"

\* The status field of the provider's answer: the vocabulary of the mapping
\* table, a word outside it, the name of a property every object inherits, or
\* no status field at all ("undefined").
ProviderStatuses ==
    {"Pending", "In progress", "Processing", "Completed", "Partial",
     "Canceled", "Refunded", "Failed", "Unknown", "constructor", "undefined"}

\* The counters of a status answer: absent or zero, or positive.
ProviderCounts == {[start_count |-> 0, remains |-> 0], [start_count |-> 10, remains |-> 3]}

\* The values of the Order.status column.
OrderStatuses == {"PENDING", "PROCESSING", "COMPLETED", "PARTIAL", "CANCELED", "FAILED"}

SubmitErrors == {"Unknown provider", "Request failed", "Provider did not return order ID"}

\* The catalog entry orders are placed against (price per 1000 units).
Service == [price |-> 5000, min |-> 100, max |-> 2000, isActive |-> TRUE,
            providerKey |-> "SMMKINGS"]

VARIABLES
    service,        \* the Service row orders are placed against
    balance,        \* User.balance, per user
    transactions,   \* Transaction rows, in insertion order
    orders,         \* Order rows; the order id is the index
    deposits,       \* DepositRequest rows; the request id is the index
    adminLogs,      \* AdminLog rows, in insertion order
    submission,     \* per order: position of its submitOrderToProvider task
    attempts,       \* deposit-resolve handlers between their read and their write
    response,       \* the last answer a deposit-resolve or refund handler gave
    jobStatus,      \* jobStats.orderSync.status
    batch,          \* syncOrderStatuses: the rows of `orders` not yet processed
    refunding,      \* syncOrderStatuses: new status whose refund is pending, or "none"
    totalRuns,      \* jobStats.orderSync.totalRuns
    processed,      \* syncOrderStatuses: orders.length of the run in progress
    updated,        \* syncOrderStatuses: the loop's counter `updated`
    failed,         \* syncOrderStatuses: the loop's counter `failed`
    lastResult,     \* jobStats.orderSync.lastResult
    logCleanup,     \* jobStats.logCleanup: status, totalRuns, lastResult.deleted
    serviceSync,    \* jobStats.serviceSync: status, totalRuns, totalErrors
    jobHistory,     \* the array jobHistory; index 1 is the front of the array
    executions,     \* executions of syncOrderStatuses past the guard and not yet
                    \* at their end (history)
    skipped,        \* whether the run in progress has turned an invocation
                    \* away at the guard (history)
    answers,        \* what checkOrderStatus gave in each iteration of the run
                    \* in progress: a status, or "threw" (history)
    reported,       \* per order id: how often the provider has answered the job
                    \* with Canceled, Refunded or Failed for it (history)
    clock,          \* logical time, read by new Date()
    updates,        \* the relay's callback updates; update_id is the index
    lastUpdateId,   \* telegram-polling: lastUpdateId
    isPolling,      \* telegram-polling: isPolling
    pollPc,         \* position of the poll body that holds isPolling
    pending,        \* the updates of the poll's answer not yet gone through
    passed,         \* per update_id: how often it was passed to
                    \* processCallbackQuery (history)
    polls,          \* poll bodies past the guard and not yet at their end
                    \* (history)
    pollSkipped,    \* whether the poll in flight has turned a tick away
                    \* (history)
    servicesCache,  \* routes/services: servicesCache
    serviceDetailCache, \* routes/services: the entry of serviceDetailCache
                    \* for the service's id
    requests,       \* GET / and GET /:id requests between their awaits
    served,         \* the last answer of GET / or GET /:id
    syncing,        \* whether POST /sync-services is back from the sync and
                    \* has not invalidated yet
    invalidations,  \* how often invalidateCache has run (history)
    now,            \* Date.now(), in milliseconds
    totalErrors     \* jobStats.orderSync.totalErrors

vars == <<service, balance, transactions, orders, deposits, adminLogs, submission,
          attempts, response, jobStatus, batch, refunding, totalRuns, processed,
          updated, failed, lastResult, logCleanup, serviceSync, jobHistory,
          executions, skipped, answers, reported, clock, updates, lastUpdateId,
          isPolling, pollPc, pending, passed, polls, pollSkipped, servicesCache,
          serviceDetailCache, requests, served, syncing, invalidations, now,
          totalErrors>>

resolveVars == <<attempts, response, clock>>
pollVars == <<updates, lastUpdateId, isPolling, pollPc, pending, passed, polls,
              pollSkipped>>
cacheVars == <<servicesCache, serviceDetailCache, requests, served, syncing,
               invalidations, now>>
jobVars == <<jobStatus, batch, refunding, totalRuns, processed, updated, failed,
             lastResult, logCleanup, serviceSync, jobHistory, executions, skipped,
             answers, reported, totalErrors>>

\* ----------------------------------------------------------------- helpers
Min(a, b) == IF a <= b THEN a ELSE b
Max(a, b) == IF a >= b THEN a ELSE b

\* Math.ceil(n / d) for n >= 0, d > 0
Ceil(n, d) == (n + d - 1) \div d

RECURSIVE SumAmounts(_, _)
SumAmounts(txs, u) ==
    IF txs = <<>> THEN 0
    ELSE (IF Head(txs).userId = u THEN Head(txs).amount ELSE 0)
         + SumAmounts(Tail(txs), u)

\* A Transaction row.  `ref` is the id of the order or deposit request the
\* writing operation acted on (the description carries it in the relay and in
\* reconciliation; for the other writers it is bookkeeping of the model).
TxRow(u, type, amount, description, ref) ==
    [userId |-> u, type |-> type, amount |-> amount,
     description |-> description, ref |-> ref]

TxOf(type, ref) ==
    {i \in 1..Len(transactions) :
        transactions[i].type = type /\ transactions[i].ref = ref}

OrderIds == 1..Len(orders)
DepositIds == 1..Len(deposits)

IdleAttempt == [channel |-> "none", id |-> 0, action |-> "none", pc |-> "idle",
                userId |-> "none", amount |-> 0]

NoResponse == [channel |-> "none", id |-> 0, result |-> "none"]

\* jobStats.orderSync.lastResult before the first run has ended.
Undefined == -1
NoResult == [processed |-> Undefined, updated |-> Undefined, failed |-> Undefined]

\* jobStats.logCleanup before the first run.
NoCleanup == [status |-> "idle", totalRuns |-> 0, deleted |-> Undefined]

\* jobStats.serviceSync before the first report.
NoServiceSync == [status |-> "idle", totalRuns |-> 0, totalErrors |-> 0]

\* The job history keeps the last MAX_HISTORY entries.
MAX_HISTORY == 50
SERVICES_CACHE_TTL_MS == 10000
SERVICE_DETAIL_CACHE_TTL_MS == 15000

\* What a history entry records of a job execution.
JobHistory(jobName, status) == [jobName |-> jobName, status |-> status]

\* addJobHistory that never drops an entry.
addJobHistory_NoEviction(entry) ==
    jobHistory' = <<entry>> \o jobHistory

\* addJobHistory: unshift(entry), then pop() when the array has grown past
\* MAX_HISTORY.
addJobHistory(entry) ==
    LET unshifted == <<entry>> \o jobHistory
    IN  jobHistory' = IF Len(unshifted) > MAX_HISTORY
                      THEN SubSeq(unshifted, 1, Len(unshifted) - 1)
                      ELSE unshifted

\* A request slot of the services routes that holds no request. `data` is
\* what the request has read from the store, `readAt` the number of
\* invalidations that had run when the store executed the read (history).
NoRequest == [pc |-> "idle", id |-> Null, data |-> <<>>, readAt |-> 0]

\* servicesCache = null, and serviceDetailCache without the id.
NoEntry == [set |-> FALSE, ts |-> 0, data |-> <<>>, readAt |-> 0]

\* The services routes of a process that has served nothing yet.
CacheEmpty ==
    /\ servicesCache = NoEntry
    /\ serviceDetailCache = NoEntry
    /\ requests = [r \in 1..MaxRequests |-> NoRequest]
    /\ served = [status |-> 0, data |-> <<>>, readAt |-> 0]
    /\ syncing = FALSE
    /\ invalidations = 0
    /\ now = 0

\* The polling state of a process that has not polled yet, and a relay that
\* holds no update.
PollIdle ==
    /\ updates = <<>>
    /\ lastUpdateId = 0
    /\ isPolling = FALSE
    /\ pollPc = "idle"
    /\ pending = <<>>
    /\ passed = [u \in 1..MaxUpdates |-> 0]
    /\ polls = 0
    /\ pollSkipped = FALSE

Init ==
    /\ service = Service
    /\ balance = [u \in Users |-> 0]
    /\ transactions = <<>>
    /\ orders = <<>>
    /\ deposits = <<>>
    /\ adminLogs = <<>>
    /\ submission = <<>>
    /\ attempts = [a \in 1..MaxAttempts |-> IdleAttempt]
    /\ response = NoResponse
    /\ jobStatus = "idle"
    /\ batch = <<>>
    /\ refunding = "none"
    /\ totalRuns = 0
    /\ processed = 0
    /\ updated = 0
    /\ failed = 0
    /\ lastResult = NoResult
    /\ answers = <<>>
    /\ executions = 0
    /\ logCleanup = NoCleanup
    /\ serviceSync = NoServiceSync
    /\ jobHistory = <<>>
    /\ skipped = FALSE
    /\ reported = [id \in 1..MaxOrders |-> 0]
    /\ clock = 1
    /\ PollIdle
    /\ CacheEmpty
    /\ totalErrors = 0

\* ------------------------------------------------- deposit request workflow
\* POST /deposit-requests (user route): a zero amount is refused, the row is
\* inserted with the schema's default status.
createDepositRequest(u, amount) ==
    /\ Len(deposits) < MaxDeposits
    /\ amount # 0
    /\ deposits' = Append(deposits,
          [userId |-> u, amount |-> amount, status |-> "PENDING",
           processedAt |-> Null, processedById |-> NullId, adminNote |-> NullId])
    /\ UNCHANGED <<balance, transactions, orders, adminLogs, submission, jobVars,
                   resolveVars, service, pollVars, cacheVars>>

\* MaxAttempts request contexts run the resolve handlers concurrently; a
\* context is idle again once its handler has answered.  Contexts are
\* interchangeable, so a new request takes the lowest idle one.
Free(a) ==
    /\ attempts[a].pc = "idle"
    /\ \A b \in 1..(a - 1) : attempts[b].pc # "idle"

\* The first store round trip of a resolve handler: findUnique, then the
\* handler's own checks on the row it got.  `foundPending` is the handler's
\* test that lets it go on to the write; `early` is what it answers otherwise.
findAndCheck(a, channel, id, action, foundPending, early) ==
    /\ Free(a)
    /\ IF foundPending
       THEN /\ attempts' = [attempts EXCEPT ![a] =
                  [channel |-> channel, id |-> id, action |-> action, pc |-> "read",
                   userId |-> deposits[id].userId, amount |-> deposits[id].amount]]
            /\ UNCHANGED response
       ELSE /\ response' = [channel |-> channel, id |-> id, result |-> early]
            /\ UNCHANGED attempts

\* A resolve handler's first round trip as a step of its own.
Begin(a, channel, id, action, foundPending, early) ==
    /\ findAndCheck(a, channel, id, action, foundPending, early)
    /\ UNCHANGED <<balance, transactions, orders, deposits, adminLogs, submission,
                   jobVars, clock, service, pollVars, cacheVars>>

Finish(a, result) ==
    /\ attempts' = [attempts EXCEPT ![a] = IdleAttempt]
    /\ response' = [channel |-> attempts[a].channel, id |-> attempts[a].id,
                    result |-> result]

\* adminStatusCheck without the test of the row's status.
adminStatusCheck_NoStateTest(id) ==
    IF id \notin DepositIds THEN "NotFound" ELSE "pass"

\* --- admin route: POST /deposit-requests/:id/:action
adminStatusCheck(id) ==
    IF id \notin DepositIds THEN "NotFound"
    ELSE IF deposits[id].status # "PENDING" THEN "AlreadyProcessed"
    ELSE "pass"

adminResolveRead(a, id, action) ==
    Begin(a, "admin", id, action, adminStatusCheck(id) = "pass", adminStatusCheck(id))

adminApprove(id, request, adminId, adminNote) ==
    /\ deposits' = [deposits EXCEPT ![id] =
          [@ EXCEPT !.status = "APPROVED", !.processedAt = clock,
                    !.processedById = adminId,
                    !.adminNote = IF adminNote = "undefined" THEN @ ELSE adminNote]]
    /\ balance' = [balance EXCEPT ![request.userId] = @ + request.amount]
    /\ transactions' = Append(transactions,
          TxRow(request.userId, "DEPOSIT", request.amount, "Deposit approved", id))

adminReject(id, adminId, adminNote) ==
    /\ deposits' = [deposits EXCEPT ![id] =
          [@ EXCEPT !.status = "REJECTED", !.processedAt = clock,
                    !.processedById = adminId,
                    !.adminNote = IF adminNote = "undefined" THEN @ ELSE adminNote]]
    /\ UNCHANGED <<balance, transactions>>

adminResolveWrite(a, adminId, adminNote, ok) ==
    /\ attempts[a].pc = "read"
    /\ attempts[a].channel = "admin"
    /\ IF ok
       THEN /\ IF attempts[a].action = "approve"
               THEN /\ Len(transactions) < MaxTx
                    /\ adminApprove(attempts[a].id, attempts[a], adminId, adminNote)
               ELSE adminReject(attempts[a].id, adminId, adminNote)
            /\ clock' = clock + 1
            /\ Finish(a, "ok")
       ELSE /\ Finish(a, "error")
            /\ UNCHANGED <<balance, transactions, deposits, clock>>
    /\ UNCHANGED <<orders, adminLogs, submission, jobVars, service, pollVars, cacheVars>>

\* --- relay: processCallbackQuery, called from the polling loop
pollingStatusCheck(id) ==
    IF id \notin DepositIds THEN "NotFound"
    ELSE IF deposits[id].status # "PENDING" THEN "AlreadyProcessed"
    ELSE "pass"

\* pollTelegramUpdates holds isPolling and awaits each callback in turn: the
\* process has at most one callback in flight.
PollingBusy == \E b \in 1..MaxAttempts :
    attempts[b].channel = "polling" /\ attempts[b].pc = "read"

processCallbackQueryRead(a, id, action) ==
    /\ ~PollingBusy
    /\ Begin(a, "polling", id, action, pollingStatusCheck(id) = "pass",
             pollingStatusCheck(id))

\* Strings are sequences of pieces; ":" is the separator character and every
\* other piece is text without a separator.

\* callbackData with the action before the id.
callbackData_ActionFirst(id, action) == <<"deposit", ":", action, ":">> \o id

\* The callback_data a notification button carries:
\* `deposit:${deposit.id}:APPROVE` or `deposit:${deposit.id}:REJECT`.
callbackData(id, action) == <<"deposit", ":">> \o id \o <<":", action>>

\* data.split(':'): the pieces between the separators, the empty ones too.
RECURSIVE split(_)
split(data) ==
    IF data = <<>> THEN << <<>> >>
    ELSE LET rest == split(Tail(data))
         IN  IF Head(data) = ":"
             THEN << <<>> >> \o rest
             ELSE << <<Head(data)>> \o rest[1] >> \o Tail(rest)

\* const [kind, id, action] = parts.  A missing element is undefined, which
\* every test of the handler treats as it treats the empty string.
Element(parts, i) == IF i <= Len(parts) THEN parts[i] ELSE <<>>

\* The id string of the n-th DepositRequest row.
RowId(n) == [i \in 1..n |-> "c"]

\* depositRequest.findUnique({ where: { id } }): the row, or null.
findUnique(id) ==
    IF \E n \in DepositIds : RowId(n) = id
    THEN CHOOSE n \in DepositIds : RowId(n) = id
    ELSE Null

\* What processCallbackQuery does with the callback's data up to the end of
\* findUnique: the data is taken apart, a callback that is not a deposit
\* decision is dropped, and the row is looked up and tested.
decode(a, data) ==
    LET parts == split(data)
        kind == Element(parts, 1)
        id == Element(parts, 2)
        action == Element(parts, 3)
    IN  IF \/ kind # <<"deposit">>
           \/ id = <<>>
           \/ (action # <<"APPROVE">> /\ action # <<"REJECT">>)
        THEN /\ response' = [channel |-> "polling", id |-> Null, result |-> "ignored"]
             /\ UNCHANGED attempts
        ELSE findAndCheck(a, "polling", findUnique(id), action[1],
                          pollingStatusCheck(findUnique(id)) = "pass",
                          pollingStatusCheck(findUnique(id)))

\* processCallbackQuery up to the end of findUnique, as a step of its own.
processCallbackQuery(a, data) ==
    /\ ~PollingBusy
    /\ decode(a, data)
    /\ UNCHANGED <<service, balance, transactions, orders, deposits, adminLogs,
                   submission, jobVars, clock, pollVars, cacheVars>>

\* pollingOps pushing the credit whatever the action.
pollingOps_AlwaysCredit(id, reqRow, action) ==
    /\ Len(transactions) < MaxTx
    /\ balance' = [balance EXCEPT ![reqRow.userId] = @ + reqRow.amount]
    /\ transactions' = Append(transactions,
          TxRow(reqRow.userId, "DEPOSIT", reqRow.amount,
                "Deposit approved (telegram: id)", reqRow.id))
    /\ deposits' = [deposits EXCEPT ![id] =
          [@ EXCEPT !.status = IF action = "APPROVE" THEN "APPROVED" ELSE "REJECTED",
                    !.processedAt = clock,
                    !.processedById = NullId,
                    !.adminNote = "Processed via Telegram (VPS)"]]

pollingOps(id, reqRow, action) ==
    /\ IF action = "APPROVE"
       THEN /\ Len(transactions) < MaxTx
            /\ balance' = [balance EXCEPT ![reqRow.userId] = @ + reqRow.amount]
            /\ transactions' = Append(transactions,
                  TxRow(reqRow.userId, "DEPOSIT", reqRow.amount,
                        "Deposit approved (telegram: id)", reqRow.id))
       ELSE UNCHANGED <<balance, transactions>>
    /\ deposits' = [deposits EXCEPT ![id] =
          [@ EXCEPT !.status = IF action = "APPROVE" THEN "APPROVED" ELSE "REJECTED",
                    !.processedAt = clock,
                    !.processedById = NullId,
                    !.adminNote = "Processed via Telegram (VPS)"]]

processCallbackQueryWrite(a, ok) ==
    /\ attempts[a].pc = "read"
    /\ attempts[a].channel = "polling"
    /\ IF ok
       THEN /\ pollingOps(attempts[a].id, attempts[a], attempts[a].action)
            /\ clock' = clock + 1
            /\ Finish(a, "ok")
       ELSE /\ Finish(a, "failed")
            /\ UNCHANGED <<balance, transactions, deposits, clock>>
    /\ UNCHANGED <<orders, adminLogs, submission, jobVars, service, pollVars, cacheVars>>

\* --- notification: POST /notify and sendDepositNotification
\* What getSettings may give: null when the store fails, or the AppSetting row
\* with the relay switched on or off and its token and chat id set or not.
TelegramSettings ==
    {[row |-> FALSE, telegramEnabled |-> FALSE, telegramBotToken |-> FALSE,
      telegramChatId |-> FALSE]}
    \cup [row : {TRUE}, telegramEnabled : BOOLEAN, telegramBotToken : BOOLEAN,
          telegramChatId : BOOLEAN]

\* sendDepositNotification that lets a failure of the send reach its caller.
sendDepositNotification_Throws(settings, sendOk) ==
    IF \/ ~settings.row
       \/ ~settings.telegramEnabled
       \/ ~settings.telegramBotToken
       \/ ~settings.telegramChatId
    THEN [returned |-> TRUE, logged |-> "none"]
    ELSE IF sendOk
    THEN [returned |-> TRUE, logged |-> "sent"]
    ELSE [returned |-> FALSE, logged |-> "none"]

\* sendDepositNotification: whether it returns to its caller, and what it
\* logs.  It returns at once without usable settings; a throw of the send is
\* caught and logged.
sendDepositNotification(settings, sendOk) ==
    IF \/ ~settings.row
       \/ ~settings.telegramEnabled
       \/ ~settings.telegramBotToken
       \/ ~settings.telegramChatId
    THEN [returned |-> TRUE, logged |-> "none"]
    ELSE IF sendOk
    THEN [returned |-> TRUE, logged |-> "sent"]
    ELSE [returned |-> TRUE, logged |-> "failed"]

\* POST /notify: a body with a field missing is answered 400 (id is Null when
\* the id is the missing field); otherwise the notification is sent and the
\* route answers success, or hands a throw to the error handler.
notify(id, complete, settings, sendOk) ==
    LET sending == sendDepositNotification(settings, sendOk)
    IN  /\ response' =
              IF id = Null \/ ~complete
              THEN [channel |-> "notify", id |-> id, result |-> "400", logged |-> "none"]
              ELSE [channel |-> "notify", id |-> id,
                    result |-> IF sending.returned THEN "success" ELSE "error",
                    logged |-> sending.logged]
        /\ UNCHANGED <<service, balance, transactions, orders, deposits, adminLogs,
                       submission, jobVars, attempts, clock, pollVars, cacheVars>>

\* --- webhook: POST /telegram; it answers {ok: true} whatever happened
webhookStatusCheck(id) ==
    IF id \in DepositIds /\ deposits[id].status = "PENDING" THEN "pass" ELSE "ok"

webhookRead(a, id, action) ==
    Begin(a, "webhook", id, action, webhookStatusCheck(id) = "pass",
          webhookStatusCheck(id))

\* webhookApprove without the balance increment.
webhookApprove_NoCredit(requestId, request) ==
    /\ deposits' = [deposits EXCEPT ![requestId] =
          [@ EXCEPT !.status = "APPROVED", !.processedAt = clock]]
    /\ UNCHANGED balance
    /\ transactions' = Append(transactions,
          TxRow(request.userId, "DEPOSIT", request.amount,
                "Deposit approved via Telegram", requestId))

webhookApprove(requestId, request) ==
    /\ deposits' = [deposits EXCEPT ![requestId] =
          [@ EXCEPT !.status = "APPROVED", !.processedAt = clock]]
    /\ balance' = [balance EXCEPT ![request.userId] = @ + request.amount]
    /\ transactions' = Append(transactions,
          TxRow(request.userId, "DEPOSIT", request.amount,
                "Deposit approved via Telegram", requestId))

webhookReject(requestId) ==
    /\ deposits' = [deposits EXCEPT ![requestId] =
          [@ EXCEPT !.status = "REJECTED", !.processedAt = clock]]
    /\ UNCHANGED <<balance, transactions>>

webhookWrite(a, ok) ==
    /\ attempts[a].pc = "read"
    /\ attempts[a].channel = "webhook"
    /\ IF ok
       THEN /\ IF attempts[a].action = "approve"
               THEN /\ Len(transactions) < MaxTx
                    /\ webhookApprove(attempts[a].id, attempts[a])
               ELSE webhookReject(attempts[a].id)
            /\ clock' = clock + 1
       ELSE UNCHANGED <<balance, transactions, deposits, clock>>
    /\ Finish(a, "ok")
    /\ UNCHANGED <<orders, adminLogs, submission, jobVars, service, pollVars, cacheVars>>

\* ---------------------------------------------------------- order lifecycle
\* The validations of order creation, in their order: the service is active,
\* the quantity is within its limits, the balance covers the charge.
createOrderCheck(u, quantity) ==
    IF ~service.isActive THEN "InvalidState"
    ELSE IF ~(service.min <= quantity /\ quantity <= service.max) THEN "InvalidState"
    ELSE IF ~(balance[u] >= Ceil(quantity * service.price, 1000))
    THEN "InsufficientBalance"
    ELSE "pass"

\* createOrderCommit that leaves the ORDER row out.
createOrderCommit_NoLedgerRow(u, quantity) ==
    LET charge == Ceil(quantity * service.price, 1000) IN
    /\ orders' = Append(orders,
          [userId |-> u, quantity |-> quantity, charge |-> charge,
           status |-> "PENDING", providerOrderId |-> Null,
           startCount |-> Null, remains |-> Null])
    /\ balance' = [balance EXCEPT ![u] = @ - charge]
    /\ UNCHANGED transactions

\* The atomic unit of order creation: the PENDING order, the debit and the
\* ORDER row.
createOrderCommit(u, quantity) ==
    LET charge == Ceil(quantity * service.price, 1000) IN
    /\ orders' = Append(orders,
          [userId |-> u, quantity |-> quantity, charge |-> charge,
           status |-> "PENDING", providerOrderId |-> Null,
           startCount |-> Null, remains |-> Null])
    /\ balance' = [balance EXCEPT ![u] = @ - charge]
    /\ transactions' = Append(transactions,
          TxRow(u, "ORDER", -charge, "Order", Len(orders) + 1))

\* POST /api/orders (routes/orders): a request that fails a validation is
\* refused with nothing written; otherwise the atomic unit commits and the
\* provider submission is detached.
createOrder(u, quantity) ==
    /\ Len(orders) < MaxOrders
    /\ Len(transactions) < MaxTx
    /\ IF createOrderCheck(u, quantity) = "pass"
       THEN /\ createOrderCommit(u, quantity)
            /\ submission' = Append(submission, [pc |-> "inflight", order |-> Null])
            /\ response' = [channel |-> "order", id |-> Len(orders) + 1, result |-> "ok"]
       ELSE /\ response' = [channel |-> "order", id |-> Null,
                            result |-> createOrderCheck(u, quantity)]
            /\ UNCHANGED <<orders, balance, transactions, submission>>
    /\ UNCHANGED <<deposits, adminLogs, jobVars, attempts, clock, service, pollVars, cacheVars>>

\* POST /api/orders/:id/cancel (routes/orders): owner only, PENDING only.
cancelOrder(u, id) ==
    /\ id \in OrderIds
    /\ orders[id].userId = u
    /\ orders[id].status = "PENDING"
    /\ Len(transactions) < MaxTx
    /\ orders' = [orders EXCEPT ![id].status = "CANCELED"]
    /\ balance' = [balance EXCEPT ![u] = @ + orders[id].charge]
    /\ transactions' = Append(transactions,
          TxRow(u, "REFUND", orders[id].charge, "Order canceled by user", id))
    /\ UNCHANGED <<deposits, adminLogs, submission, jobVars, resolveVars, service, pollVars,
                   cacheVars>>

\* submitOrderToProvider, try block up to the provider's answer: the provider
\* accepted the order and returned a numeric order id.
providerAccepts(orderId, providerOrderId) ==
    /\ orderId \in OrderIds
    /\ submission[orderId].pc = "inflight"
    /\ submission' = [submission EXCEPT ![orderId] =
          [pc |-> "accepted", order |-> providerOrderId]]
    /\ UNCHANGED <<balance, transactions, orders, deposits, adminLogs, jobVars,
                   resolveVars, service, pollVars, cacheVars>>

\* submitFailedRefund without the status update.
submitFailedRefund_NoStatus(orderId, message) ==
    /\ UNCHANGED orders
    /\ balance' = [balance EXCEPT ![orders[orderId].userId] = @ + orders[orderId].charge]
    /\ transactions' = Append(transactions,
          TxRow(orders[orderId].userId, "REFUND", orders[orderId].charge,
                "Order failed: message", orderId))

\* submitOrderToProvider, catch block: the order row is read again and the
\* FAILED status, the credit and the REFUND row go in one $transaction.  The
\* row's userId and charge are never written after creation, so the read and
\* the batch are one step.
submitFailedRefund(orderId, message) ==
    /\ orders' = [orders EXCEPT ![orderId].status = "FAILED"]
    /\ balance' = [balance EXCEPT ![orders[orderId].userId] = @ + orders[orderId].charge]
    /\ transactions' = Append(transactions,
          TxRow(orders[orderId].userId, "REFUND", orders[orderId].charge,
                "Order failed: message", orderId))

submitCatch(orderId, message, ok) ==
    IF ok
    THEN /\ Len(transactions) < MaxTx
         /\ submitFailedRefund(orderId, message)
         /\ submission' = [submission EXCEPT ![orderId].pc = "refunded"]
    ELSE /\ submission' = [submission EXCEPT ![orderId].pc = "crashed"]
         /\ UNCHANGED <<balance, transactions, orders>>

\* submitRecord that writes the status and not the provider's order id.
submitRecord_NoProviderId(orderId, ok, ok2) ==
    /\ orderId \in OrderIds
    /\ submission[orderId].pc = "accepted"
    /\ IF ok
       THEN /\ orders' = [orders EXCEPT ![orderId].status = "PROCESSING"]
            /\ submission' = [submission EXCEPT ![orderId].pc = "submitted"]
            /\ UNCHANGED <<balance, transactions>>
       ELSE submitCatch(orderId, "store error", ok2)
    /\ UNCHANGED <<deposits, adminLogs, jobVars, resolveVars, service, pollVars, cacheVars>>

\* submitOrderToProvider, after the provider accepted: order.update; when the
\* update throws the catch block runs (ok2: whether its $transaction commits).
submitRecord(orderId, ok, ok2) ==
    /\ orderId \in OrderIds
    /\ submission[orderId].pc = "accepted"
    /\ IF ok
       THEN /\ orders' = [orders EXCEPT ![orderId].status = "PROCESSING",
                                        ![orderId].providerOrderId = submission[orderId].order]
            /\ submission' = [submission EXCEPT ![orderId].pc = "submitted"]
            /\ UNCHANGED <<balance, transactions>>
       ELSE submitCatch(orderId, "store error", ok2)
    /\ UNCHANGED <<deposits, adminLogs, jobVars, resolveVars, service, pollVars, cacheVars>>

\* submitOrderToProvider when getApiConfig or the request throws, or the answer
\* carries no numeric order id.
submitFails(orderId, message, ok) ==
    /\ orderId \in OrderIds
    /\ submission[orderId].pc = "inflight"
    /\ submitCatch(orderId, message, ok)
    /\ UNCHANGED <<deposits, adminLogs, jobVars, resolveVars, service, pollVars, cacheVars>>

\* adminRefundCheck refusing an order that is already CANCELED or FAILED.
adminRefundCheck_StateGuard(id) ==
    IF id \notin OrderIds THEN "NotFound"
    ELSE IF orders[id].status \in {"CANCELED", "FAILED"} THEN "AlreadyRefunded"
    ELSE "pass"

\* POST /orders/:id/refund (admin route): the only test on the row read.
adminRefundCheck(id) ==
    IF id \notin OrderIds THEN "NotFound" ELSE "pass"

\* adminRefundTx without the audit log row.
adminRefundTx_NoLog(id, adminId, reason) ==
    /\ orders' = [orders EXCEPT ![id].status = "CANCELED"]
    /\ balance' = [balance EXCEPT ![orders[id].userId] = @ + orders[id].charge]
    /\ transactions' = Append(transactions,
          TxRow(orders[id].userId, "REFUND", orders[id].charge, "Admin refund: reason", id))
    /\ UNCHANGED adminLogs

\* adminRefundTx that takes the order's ORDER row out of the ledger instead of
\* adding a REFUND row.
adminRefundTx_Reverses(id, adminId, reason) ==
    /\ orders' = [orders EXCEPT ![id].status = "CANCELED"]
    /\ balance' = [balance EXCEPT ![orders[id].userId] = @ + orders[id].charge]
    /\ transactions' = SelectSeq(transactions,
          LAMBDA t : ~(t.type = "ORDER" /\ t.ref = id))
    /\ adminLogs' = Append(adminLogs,
          [adminId |-> adminId, action |-> "ORDER_REFUND", targetType |-> "Order",
           targetId |-> id, amount |-> orders[id].charge, createdAt |-> clock])

\* The $transaction of the refund route.
adminRefundTx(id, adminId, reason) ==
    /\ orders' = [orders EXCEPT ![id].status = "CANCELED"]
    /\ balance' = [balance EXCEPT ![orders[id].userId] = @ + orders[id].charge]
    /\ transactions' = Append(transactions,
          TxRow(orders[id].userId, "REFUND", orders[id].charge, "Admin refund: reason", id))
    /\ adminLogs' = Append(adminLogs,
          [adminId |-> adminId, action |-> "ORDER_REFUND", targetType |-> "Order",
           targetId |-> id, amount |-> orders[id].charge, createdAt |-> clock])

\* POST /orders/:id/refund (admin route).  The handler reads the row for its
\* userId and charge only, which are never written after creation, so the read
\* and the $transaction are one step.  A missing row is answered 404; a throw
\* of the batch goes to the error handler.
adminRefund(id, adminId, reason, ok) ==
    /\ IF adminRefundCheck(id) # "pass"
       THEN /\ response' = [channel |-> "refund", id |-> id, result |-> adminRefundCheck(id)]
            /\ UNCHANGED <<balance, transactions, orders, adminLogs>>
       ELSE IF ok
       THEN /\ Len(transactions) < MaxTx
            /\ adminRefundTx(id, adminId, reason)
            /\ response' = [channel |-> "refund", id |-> id, result |-> "ok"]
       ELSE /\ response' = [channel |-> "refund", id |-> id, result |-> "error"]
            /\ UNCHANGED <<balance, transactions, orders, adminLogs>>
    /\ UNCHANGED <<deposits, submission, jobVars, attempts, clock, service, pollVars, cacheVars>>

\* ------------------------------------------------------ reconciliation job
statusMap(status) ==
    CASE status = "Pending" -> "PENDING"
      [] status = "In progress" -> "PROCESSING"
      [] status = "Processing" -> "PROCESSING"
      [] status = "Completed" -> "COMPLETED"
      [] status = "Partial" -> "PARTIAL"
      [] status = "Canceled" -> "CANCELED"
      [] status = "Refunded" -> "CANCELED"
      [] status = "Failed" -> "FAILED"
      [] status = "constructor" -> "function"
      [] OTHER -> "undefined"

\* newStatusOf taking an unmapped status for a failure.
newStatusOf_UnmappedFails(resultStatus, order) ==
    IF statusMap(resultStatus) = "undefined" THEN "FAILED"
    ELSE statusMap(resultStatus)

\* statusMap[result.status] || order.status
newStatusOf(resultStatus, order) ==
    IF statusMap(resultStatus) = "undefined" THEN order.status
    ELSE statusMap(resultStatus)

\* The where clause of the job's findMany.
needsSync(o) ==
    /\ o.status \in {"PENDING", "PROCESSING"}
    /\ o.providerOrderId # Null

\* The subsets of S that have k elements, each given by its elements in
\* rising order.
Subsets(S, k) ==
    {{f[i] : i \in 1..k} :
        f \in {g \in [1..k -> S] : \A i, j \in 1..k : i < j => g[i] < g[j]}}

\* The order ids of S as a sequence, lowest first.
Ascending(S) == SelectSeq([id \in OrderIds |-> id], LAMBDA id : id \in S)

\* The rows findMany can return: the matching rows, at most BatchSize of them,
\* in whatever order the store yields them (the query has no orderBy).  When
\* more rows match than the batch takes, any of them may be the ones left
\* out; of the orders in which the others may come, the one by id stands for
\* all.
Selections ==
    LET match == {id \in OrderIds : needsSync(orders[id])}
        n == Min(Cardinality(match), BatchSize)
    IN  IF Cardinality(match) <= BatchSize
        THEN {s \in [1..n -> match] : \A i, j \in 1..n : i # j => s[i] # s[j]}
        ELSE {Ascending(match \ left) :
                left \in Subsets(match, Cardinality(match) - n)}

Snapshot(id) ==
    [id |-> id, status |-> orders[id].status, userId |-> orders[id].userId,
     charge |-> orders[id].charge, providerOrderId |-> orders[id].providerOrderId]

\* alreadyRunning never seeing a run in progress.
alreadyRunning_Never == FALSE

\* The guard at the top of syncOrderStatuses.
alreadyRunning == jobStatus = "running"

\* An invocation of syncOrderStatuses (cron tick, delayed first run or
\* triggerOrderSync) that finds a run in progress: it logs and returns.
syncSkip ==
    /\ alreadyRunning
    /\ skipped' = TRUE
    /\ UNCHANGED <<balance, transactions, orders, deposits, adminLogs, submission,
                   jobStatus, batch, refunding, totalRuns, processed, updated, failed,
                   lastResult, logCleanup, executions, answers, reported, resolveVars,
                   service, serviceSync, jobHistory, pollVars, cacheVars,
                   totalErrors>>

\* syncOrderStatuses up to the end of findMany.  Only this job reads or writes
\* jobStats, so the guard, the stamping of 'running' and the query are one step.
syncStart(ok) ==
    /\ ~alreadyRunning
    /\ skipped' = FALSE
    /\ totalRuns < MaxRuns
    /\ totalRuns' = totalRuns + 1
    /\ totalErrors' = IF ok THEN totalErrors ELSE totalErrors + 1
    /\ updated' = 0
    /\ failed' = 0
    /\ answers' = <<>>
    /\ IF ok
       THEN \E s \in Selections :
              /\ batch' = [i \in 1..Len(s) |-> Snapshot(s[i])]
              /\ processed' = Len(s)
              /\ jobStatus' = IF Len(s) = 0 THEN "completed" ELSE "running"
              /\ executions' = IF Len(s) = 0 THEN executions ELSE executions + 1
              /\ lastResult' = IF Len(s) = 0
                               THEN [processed |-> 0, updated |-> 0, failed |-> 0]
                               ELSE lastResult
              /\ IF Len(s) = 0
                 THEN addJobHistory(JobHistory("orderSync", "completed"))
                 ELSE UNCHANGED jobHistory
       ELSE /\ batch' = <<>>
            /\ processed' = 0
            /\ jobStatus' = "failed"
            /\ addJobHistory(JobHistory("orderSync", "failed"))
            /\ UNCHANGED <<lastResult, executions>>
    /\ UNCHANGED <<balance, transactions, orders, deposits, adminLogs, submission,
                   refunding, logCleanup, reported, resolveVars, service, serviceSync,
                   pollVars, cacheVars>>

\* The refund test of the loop body, on the row as the job read it.
refundDue(newStatus, order) ==
    /\ newStatus \in {"CANCELED", "FAILED"}
    /\ order.status \notin {"CANCELED", "FAILED"}

\* syncCatch giving up the rest of the batch.
syncCatch_Aborts ==
    /\ failed' = failed + 1
    /\ batch' = <<>>
    /\ UNCHANGED <<orders, refunding, updated>>

\* The catch block of the loop body: the failure is counted and the loop goes
\* on with the next order.
syncCatch ==
    /\ failed' = failed + 1
    /\ batch' = Tail(batch)
    /\ UNCHANGED <<orders, refunding, updated>>

\* value ? Number(value) : undefined, as the data of an update: a zero or
\* absent counter leaves the column as it is.
CountOr(value, column) == IF value # 0 THEN value ELSE column

\* One iteration of the loop up to the end of order.update: the provider is
\* asked (it answers result, or the request throws) and, when the mapped
\* status differs from the one the job read, the order row is written.  The
\* update throws when the store fails (~ok) or when the value is not a status.
syncOrder(result, queryOk, ok) ==
    LET order == Head(batch)
        newStatus == newStatusOf(result.status, order)
        writes == queryOk /\ newStatus # order.status
        commits == writes /\ ok /\ newStatus \in OrderStatuses
    IN
    /\ jobStatus = "running"
    /\ refunding = "none"
    /\ batch # <<>>
    /\ answers' = Append(answers, IF queryOk THEN result.status ELSE "threw")
    /\ reported' = IF queryOk /\ result.status \in {"Canceled", "Refunded", "Failed"}
                   THEN [reported EXCEPT ![order.id] = @ + 1]
                   ELSE reported
    /\ IF commits
       THEN /\ orders' = [orders EXCEPT ![order.id] =
                  [@ EXCEPT !.status = newStatus,
                            !.startCount = CountOr(result.start_count, @),
                            !.remains = CountOr(result.remains, @)]]
            /\ IF refundDue(newStatus, order)
               THEN /\ refunding' = newStatus
                    /\ UNCHANGED <<batch, updated>>
               ELSE /\ refunding' = "none"
                    /\ batch' = Tail(batch)
                    /\ updated' = updated + 1
            /\ UNCHANGED failed
       ELSE IF queryOk /\ ~writes
            THEN /\ batch' = Tail(batch)
                 /\ UNCHANGED <<orders, refunding, updated, failed>>
            ELSE syncCatch
    /\ UNCHANGED <<balance, transactions, deposits, adminLogs, submission, jobStatus,
                   totalRuns, processed, lastResult, logCleanup, executions, skipped,
                   resolveVars, service, serviceSync, jobHistory, pollVars,
                   cacheVars, totalErrors>>

\* syncRefundTx without the Transaction row.
syncRefundTx_NoRow(order, newStatus) ==
    /\ balance' = [balance EXCEPT ![order.userId] = @ + order.charge]
    /\ UNCHANGED transactions

syncRefundTx(order, newStatus) ==
    /\ balance' = [balance EXCEPT ![order.userId] = @ + order.charge]
    /\ transactions' = Append(transactions,
          TxRow(order.userId, "REFUND", order.charge, "Order status: id", order.id))

\* The refund $transaction of the iteration; a throw is caught by the loop.
syncRefund(ok) ==
    /\ jobStatus = "running"
    /\ refunding # "none"
    /\ IF ok
       THEN /\ Len(transactions) < MaxTx
            /\ syncRefundTx(Head(batch), refunding)
            /\ updated' = updated + 1
            /\ UNCHANGED failed
       ELSE /\ failed' = failed + 1
            /\ UNCHANGED <<balance, transactions, updated>>
    /\ refunding' = "none"
    /\ batch' = Tail(batch)
    /\ UNCHANGED <<orders, deposits, adminLogs, submission, jobStatus, totalRuns,
                   processed, lastResult, logCleanup, executions, skipped, answers,
                   reported, resolveVars, service, serviceSync, jobHistory,
                   pollVars, cacheVars, totalErrors>>

\* syncFinish that never reaches the end of the loop.
syncFinish_StaysRunning ==
    /\ jobStatus = "running"
    /\ batch = <<>>
    /\ UNCHANGED vars

\* The end of the loop: the run's counters become lastResult.
\* The end of the loop that leaves the history as it is.
syncFinish_NoHistory ==
    /\ jobStatus = "running"
    /\ batch = <<>>
    /\ jobStatus' = "completed"
    /\ lastResult' = [processed |-> processed, updated |-> updated, failed |-> failed]
    /\ processed' = 0
    /\ updated' = 0
    /\ failed' = 0
    /\ answers' = <<>>
    /\ executions' = executions - 1
    /\ skipped' = FALSE
    /\ UNCHANGED <<balance, transactions, orders, deposits, adminLogs, submission,
                   batch, refunding, totalRuns, logCleanup, reported, resolveVars,
                   service, serviceSync, pollVars, cacheVars, totalErrors, jobHistory>>

syncFinish ==
    /\ jobStatus = "running"
    /\ batch = <<>>
    /\ jobStatus' = "completed"
    /\ lastResult' = [processed |-> processed, updated |-> updated, failed |-> failed]
    /\ processed' = 0
    /\ updated' = 0
    /\ failed' = 0
    /\ answers' = <<>>
    /\ executions' = executions - 1
    /\ skipped' = FALSE
    /\ addJobHistory(JobHistory("orderSync", "completed"))
    /\ UNCHANGED <<balance, transactions, orders, deposits, adminLogs, submission,
                   batch, refunding, totalRuns, logCleanup, reported, resolveVars,
                   service, serviceSync, pollVars, cacheVars, totalErrors>>

\* ----------------------------------------------------------------- catalog
\* What an admin sends to PATCH /services/:id: an isActive that is a boolean
\* or absent, a price that is a number or absent (0).
ActiveEdits == {"undefined", "true", "false"}
PriceEdits == {0, 8000}

\* The limits the provider lists for the service.
ProviderLimits == {[min |-> 100, max |-> 2000], [min |-> 500, max |-> 5000]}

\* patchService that also reprices the orders placed against the service.
patchService_Reprices(isActive, price, ok) ==
    /\ ok
    /\ service' = [service EXCEPT
          !.isActive = IF isActive = "undefined" THEN @ ELSE isActive = "true",
          !.price = IF price # 0 THEN price ELSE @]
    /\ orders' = [o \in OrderIds |->
          [orders[o] EXCEPT !.charge = Ceil(orders[o].quantity * service'.price, 1000)]]
    /\ UNCHANGED <<balance, transactions, deposits, adminLogs, submission,
                   jobVars, resolveVars, pollVars, cacheVars>>

\* PATCH /services/:id (admin route): one service.update with the fields the
\* body carries; it throws when the store fails.
patchService(isActive, price, ok) ==
    /\ IF ok
       THEN service' = [service EXCEPT
              !.isActive = IF isActive = "undefined" THEN @ ELSE isActive = "true",
              !.price = IF price # 0 THEN price ELSE @]
       ELSE UNCHANGED service
    /\ UNCHANGED <<balance, transactions, orders, deposits, adminLogs, submission,
                   jobVars, resolveVars, pollVars, cacheVars>>

\* syncServicesFromProvider for a service the catalog already holds: the row's
\* limits are rewritten from the provider's list, its price is not; a throw of
\* the update is caught per service.
syncServicesFromProvider(svc, ok) ==
    /\ IF ok
       THEN service' = [service EXCEPT !.min = svc.min, !.max = svc.max]
       ELSE UNCHANGED service
    /\ UNCHANGED <<balance, transactions, orders, deposits, adminLogs, submission,
                   jobVars, resolveVars, pollVars, cacheVars>>

\* ------------------------------------------------------------- log cleanup
\* cleanupOldLogs (daily): deleteMany removes the AdminLog rows created more
\* than RetentionDays before now; the job's statistics record the outcome.
cleanupOldLogs(ok) ==
    LET thirtyDaysAgo == clock - RetentionDays
        kept == SelectSeq(adminLogs, LAMBDA row : ~(row.createdAt < thirtyDaysAgo))
    IN
    /\ logCleanup.totalRuns < MaxRuns
    /\ IF ok
       THEN /\ adminLogs' = kept
            /\ logCleanup' = [status |-> "completed",
                              totalRuns |-> logCleanup.totalRuns + 1,
                              deleted |-> Len(adminLogs) - Len(kept)]
            /\ addJobHistory(JobHistory("logCleanup", "completed"))
       ELSE /\ logCleanup' = [logCleanup EXCEPT !.status = "failed",
                                                !.totalRuns = @ + 1]
            /\ addJobHistory(JobHistory("logCleanup", "failed"))
            /\ UNCHANGED adminLogs
    /\ UNCHANGED <<balance, transactions, orders, deposits, submission, jobStatus,
                   batch, refunding, totalRuns, processed, updated, failed, lastResult,
                   executions, skipped, answers, reported, resolveVars, service,
                   serviceSync, pollVars, cacheVars, totalErrors>>

\* The statuses a service sync reports when it has ended.
ReportedStatuses == {"completed", "failed"}

\* updateServiceSyncStats: the statistics of the service sync take the
\* reported status and a history entry is added for it.
updateServiceSyncStats(status) ==
    /\ serviceSync.totalRuns < MAX_HISTORY + MaxRuns
    /\ serviceSync' = [status |-> status,
                       totalRuns |-> serviceSync.totalRuns + 1,
                       totalErrors |-> IF status = "failed"
                                       THEN serviceSync.totalErrors + 1
                                       ELSE serviceSync.totalErrors]
    /\ addJobHistory(JobHistory("serviceSync", status))
    /\ UNCHANGED <<service, balance, transactions, orders, deposits, adminLogs,
                   submission, jobStatus, batch, refunding, totalRuns, processed,
                   updated, failed, lastResult, logCleanup, executions, skipped,
                   answers, reported, resolveVars, pollVars, cacheVars,
                   totalErrors>>

\* More than RetentionDays go by without a request.
retentionElapses ==
    /\ clock + RetentionDays + 1 <= MaxTime
    /\ clock' = clock + RetentionDays + 1
    /\ UNCHANGED <<balance, transactions, orders, deposits, adminLogs, submission,
                   jobVars, attempts, response, service, pollVars, cacheVars>>

\* --------------------------------------------------------------- behaviours
Actions == {"approve", "reject"}
CallbackActions == {"APPROVE", "REJECT"}

DepositNext ==
    \/ \E u \in Depositors, amount \in DepositAmounts : createDepositRequest(u, amount)
    \/ \E a \in 1..MaxAttempts, id \in 1..MaxDeposits, action \in Actions :
          adminResolveRead(a, id, action)
    \/ \E a \in 1..MaxAttempts, adminId \in Admins, note \in AdminNotes, ok \in BOOLEAN :
          adminResolveWrite(a, adminId, note, ok)
    \/ \E a \in 1..MaxAttempts, id \in 1..MaxDeposits, action \in CallbackActions :
          processCallbackQueryRead(a, id, action)
    \/ \E a \in 1..MaxAttempts, ok \in BOOLEAN : processCallbackQueryWrite(a, ok)
    \/ \E a \in 1..MaxAttempts, id \in 1..MaxDeposits, action \in Actions :
          webhookRead(a, id, action)
    \/ \E a \in 1..MaxAttempts, ok \in BOOLEAN : webhookWrite(a, ok)

OrderNext ==
    \/ \E u \in Users, quantity \in Quantities : createOrder(u, quantity)
    \/ \E u \in Users, id \in 1..MaxOrders : cancelOrder(u, id)
    \/ \E id \in 1..MaxOrders, pid \in ProviderOrderIds : providerAccepts(id, pid)
    \/ \E id \in 1..MaxOrders, ok \in BOOLEAN, ok2 \in BOOLEAN : submitRecord(id, ok, ok2)
    \/ \E id \in 1..MaxOrders, message \in SubmitErrors, ok \in BOOLEAN :
          submitFails(id, message, ok)
    \/ \E id \in 1..MaxOrders, adminId \in Admins, ok \in BOOLEAN :
          adminRefund(id, adminId, "reason", ok)
    \/ \E ok \in BOOLEAN : syncStart(ok)
    \/ \E status \in ProviderStatuses, counts \in ProviderCounts,
          queryOk \in BOOLEAN, ok \in BOOLEAN :
          syncOrder([status |-> status, start_count |-> counts.start_count,
                     remains |-> counts.remains], queryOk, ok)
    \/ \E ok \in BOOLEAN : syncRefund(ok)
    \/ syncFinish

\* The reconciliation job on its own.
SyncNext ==
    \/ \E ok \in BOOLEAN : syncStart(ok)
    \/ \E status \in ProviderStatuses, counts \in ProviderCounts,
          queryOk \in BOOLEAN, ok \in BOOLEAN :
          syncOrder([status |-> status, start_count |-> counts.start_count,
                     remains |-> counts.remains], queryOk, ok)
    \/ \E ok \in BOOLEAN : syncRefund(ok)
    \/ syncFinish
    \/ syncSkip

\* The catalog edits.
CatalogNext ==
    \/ \E isActive \in ActiveEdits, price \in PriceEdits, ok \in BOOLEAN :
          patchService(isActive, price, ok)
    \/ \E svc \in ProviderLimits, ok \in BOOLEAN : syncServicesFromProvider(svc, ok)

\* The admin routes that the audit log is about, and the job that prunes it.
AuditNext ==
    \/ \E u \in Depositors, amount \in DepositAmounts : createDepositRequest(u, amount)
    \/ \E a \in 1..MaxAttempts, id \in 1..MaxDeposits, action \in Actions :
          adminResolveRead(a, id, action)
    \/ \E a \in 1..MaxAttempts, adminId \in Admins, note \in AdminNotes, ok \in BOOLEAN :
          adminResolveWrite(a, adminId, note, ok)
    \/ \E u \in Users, quantity \in Quantities : createOrder(u, quantity)
    \/ \E id \in 1..MaxOrders, adminId \in Admins, ok \in BOOLEAN :
          adminRefund(id, adminId, "reason", ok)
    \/ \E ok \in BOOLEAN : cleanupOldLogs(ok)
    \/ retentionElapses

\* The provider answers that differ in what the job does to the ledger.
LedgerStatuses == {"Completed", "Partial", "Canceled", "Failed", "Unknown"}

\* Every handler that reads or writes balances and Transaction rows, all of
\* them interleaved.  Inputs that have no bearing on balances or Transaction
\* rows are fixed: the admin sends no note, the provider sends no counters.
LedgerNext ==
    \/ \E u \in Depositors, amount \in DepositAmounts : createDepositRequest(u, amount)
    \/ \E a \in 1..MaxAttempts, id \in 1..MaxDeposits, action \in Actions :
          adminResolveRead(a, id, action)
    \/ \E a \in 1..MaxAttempts, adminId \in Admins, ok \in BOOLEAN :
          adminResolveWrite(a, adminId, "undefined", ok)
    \/ \E a \in 1..MaxAttempts, id \in 1..MaxDeposits, action \in CallbackActions :
          processCallbackQueryRead(a, id, action)
    \/ \E a \in 1..MaxAttempts, ok \in BOOLEAN : processCallbackQueryWrite(a, ok)
    \/ \E a \in 1..MaxAttempts, id \in 1..MaxDeposits, action \in Actions :
          webhookRead(a, id, action)
    \/ \E a \in 1..MaxAttempts, ok \in BOOLEAN : webhookWrite(a, ok)
    \/ \E u \in Users, quantity \in Quantities : createOrder(u, quantity)
    \/ \E u \in Users, id \in 1..MaxOrders : cancelOrder(u, id)
    \/ \E id \in 1..MaxOrders, pid \in ProviderOrderIds : providerAccepts(id, pid)
    \/ \E id \in 1..MaxOrders, ok \in BOOLEAN, ok2 \in BOOLEAN : submitRecord(id, ok, ok2)
    \/ \E id \in 1..MaxOrders, ok \in BOOLEAN : submitFails(id, "Request failed", ok)
    \/ \E id \in 1..MaxOrders, adminId \in Admins, ok \in BOOLEAN :
          adminRefund(id, adminId, "reason", ok)
    \/ \E ok \in BOOLEAN : syncStart(ok)
    \/ \E status \in LedgerStatuses, queryOk \in BOOLEAN, ok \in BOOLEAN :
          syncOrder([status |-> status, start_count |-> 0, remains |-> 0], queryOk, ok)
    \/ \E ok \in BOOLEAN : syncRefund(ok)
    \/ syncFinish

\* What the relay may be sent as callback data: the data of the buttons for
\* rows that exist and for one that does not, the same with another kind,
\* with an empty id, with an id that holds a separator or with another action
\* word, and data with fewer parts.
Kinds == {"deposit", "order"}
ActionWords == {"APPROVE", "REJECT", "approve"}
IdStrings == {RowId(n) : n \in 1..(MaxDeposits + 1)}
Token(kind, id, word) == <<kind, ":">> \o id \o <<":", word>>
CallbackTokens ==
    {callbackData(id, action) : id \in IdStrings, action \in CallbackActions}
    \cup {Token(kind, id, word) :
           kind \in Kinds, id \in IdStrings \cup {<<>>, <<"c", ":", "c">>},
           word \in ActionWords}
    \cup {<<>>, <<"deposit">>, <<"deposit", ":", "c">>}

\* The deposit-request workflow when the relay takes its decisions from the
\* callback data it is handed.
RelayNext ==
    \/ \E u \in Depositors, amount \in DepositAmounts : createDepositRequest(u, amount)
    \/ \E a \in 1..MaxAttempts, id \in 1..MaxDeposits, action \in Actions :
          adminResolveRead(a, id, action)
    \/ \E a \in 1..MaxAttempts, adminId \in Admins, note \in AdminNotes, ok \in BOOLEAN :
          adminResolveWrite(a, adminId, note, ok)
    \/ \E a \in 1..MaxAttempts, ok \in BOOLEAN : processCallbackQueryWrite(a, ok)
    \/ \E a \in 1..MaxAttempts, id \in 1..MaxDeposits, action \in Actions :
          webhookRead(a, id, action)
    \/ \E a \in 1..MaxAttempts, ok \in BOOLEAN : webhookWrite(a, ok)
    \/ \E a \in 1..MaxAttempts, data \in CallbackTokens : processCallbackQuery(a, data)

RelaySpec == Init /\ [][RelayNext]_vars

\* The deposit-request workflow with the notification of new requests.
NotifyNext ==
    \/ DepositNext
    \/ \E id \in 0..MaxDeposits, complete \in BOOLEAN, settings \in TelegramSettings,
          sendOk \in BOOLEAN : notify(id, complete, settings, sendOk)

\* ---------------------------------------------------------------------------
\* The polling loop of telegram-polling.ts: setInterval calls
\* pollTelegramUpdates every three seconds, each call is one poll body made of
\* awaited steps, and the relay keeps the callback updates under increasing
\* update ids.

\* An administrator presses a button of the message of request `id`: the relay
\* records a callback update under the next update id.
click(id, action) ==
    /\ Len(updates) < MaxUpdates
    /\ id \in DepositIds
    /\ updates' = Append(updates,
          [update_id |-> Len(updates) + 1, data |-> callbackData(RowId(id), action)])
    /\ UNCHANGED <<service, balance, transactions, orders, deposits, adminLogs,
                   submission, jobVars, resolveVars, lastUpdateId, isPolling, pollPc,
                   pending, passed, polls, pollSkipped, cacheVars>>

\* The guard at the top of pollTelegramUpdates, which never lets a poll start.
pollGuard_Open == FALSE

\* The guard at the top of pollTelegramUpdates.
pollGuard == isPolling

\* One call of pollTelegramUpdates by the interval timer (or by
\* startTelegramPolling), up to its first await: it returns at the guard, or
\* takes isPolling and goes on to read the settings.
pollTelegramUpdates ==
    /\ IF pollGuard
       THEN /\ pollSkipped' = TRUE
            /\ UNCHANGED <<isPolling, pollPc, polls>>
       ELSE /\ polls < MaxPolls
            /\ isPolling' = TRUE
            /\ pollPc' = "settings"
            /\ polls' = polls + 1
            /\ pollSkipped' = FALSE
    /\ UNCHANGED <<service, balance, transactions, orders, deposits, adminLogs,
                   submission, jobVars, resolveVars, updates, lastUpdateId, pending,
                   passed, cacheVars>>

\* The end of a poll body: the early return of the disabled case and the
\* finally block both put isPolling back.
pollReturn ==
    /\ isPolling' = FALSE
    /\ pollPc' = "idle"
    /\ polls' = polls - 1
    /\ pending' = <<>>

\* getSettings has answered: without a row, with the relay switched off or
\* without a bot token the poll ends, otherwise it goes on to getUpdates.
pollSettings(settings) ==
    /\ pollPc = "settings"
    /\ IF ~settings.row \/ ~settings.telegramEnabled \/ ~settings.telegramBotToken
       THEN pollReturn
       ELSE /\ pollPc' = "fetch"
            /\ UNCHANGED <<isPolling, polls, pending>>
    /\ UNCHANGED <<service, balance, transactions, orders, deposits, adminLogs,
                   submission, jobVars, resolveVars, updates, lastUpdateId, passed,
                   pollSkipped, cacheVars>>

\* The offset of getUpdates, which asks for the last update again.
nextOffset_Again == Max(lastUpdateId, 1)

\* The offset pollTelegramUpdates hands to getUpdates.
nextOffset == lastUpdateId + 1

\* What the relay answers to getUpdates: the updates from the offset on.
getUpdates(offset) == SubSeq(updates, offset, Len(updates))

\* getUpdates has answered with the batch, or telegramApi has thrown and the
\* catch and finally blocks end the poll.
pollFetch(ok) ==
    /\ pollPc = "fetch"
    /\ IF ok
       THEN /\ pending' = getUpdates(nextOffset)
            /\ pollPc' = "processing"
            /\ UNCHANGED <<isPolling, polls>>
       ELSE pollReturn
    /\ UNCHANGED <<service, balance, transactions, orders, deposits, adminLogs,
                   submission, jobVars, resolveVars, updates, lastUpdateId, passed,
                   pollSkipped, cacheVars>>

\* Whether processCallbackQuery gets as far as findUnique with this data.
reachesFindUnique(data) ==
    /\ Element(split(data), 1) = <<"deposit">>
    /\ Element(split(data), 2) # <<>>
    /\ Element(split(data), 3) \in {<<"APPROVE">>, <<"REJECT">>}

\* One iteration of the loop over the batch, up to the end of findUnique:
\* lastUpdateId moves first, then processCallbackQuery is called. findUnique
\* is outside every try block of processCallbackQuery, so when it throws the
\* loop is left through the catch of pollTelegramUpdates.
pollDeliver(a, readOk) ==
    /\ pollPc = "processing"
    /\ pending # <<>>
    /\ ~PollingBusy
    /\ lastUpdateId' = Max(lastUpdateId, Head(pending).update_id)
    /\ passed' = [passed EXCEPT ![Head(pending).update_id] = Min(@ + 1, MaxPasses)]
    /\ IF reachesFindUnique(Head(pending).data) /\ ~readOk
       THEN /\ pollReturn
            /\ response' = [channel |-> "polling", id |-> Null, result |-> "threw"]
            /\ UNCHANGED attempts
       ELSE /\ decode(a, Head(pending).data)
            /\ pending' = Tail(pending)
            /\ UNCHANGED <<isPolling, pollPc, polls>>
    /\ UNCHANGED <<service, balance, transactions, orders, deposits, adminLogs,
                   submission, jobVars, clock, updates, pollSkipped, cacheVars>>

\* The loop over the batch is over and the finally block runs.
pollEnd ==
    /\ pollPc = "processing"
    /\ pending = <<>>
    /\ ~PollingBusy
    /\ pollReturn
    /\ UNCHANGED <<service, balance, transactions, orders, deposits, adminLogs,
                   submission, jobVars, resolveVars, updates, lastUpdateId, passed,
                   pollSkipped, cacheVars>>

\* The steps of the poll bodies.
pollSteps(settingsSet, fetchOk) ==
    \/ pollTelegramUpdates
    \/ \E settings \in settingsSet : pollSettings(settings)
    \/ \E ok \in fetchOk : pollFetch(ok)
    \/ \E a \in 1..MaxAttempts, readOk \in BOOLEAN : pollDeliver(a, readOk)
    \/ pollEnd
    \/ \E a \in 1..MaxAttempts, ok \in BOOLEAN : processCallbackQueryWrite(a, ok)

\* The relay at work: requests are made, buttons are pressed, the timer ticks.
PollNext ==
    \/ \E u \in Depositors, amount \in DepositAmounts : createDepositRequest(u, amount)
    \/ \E id \in 1..MaxDeposits, action \in CallbackActions : click(id, action)
    \/ pollSteps(TelegramSettings, BOOLEAN)

PollSpec == Init /\ [][PollNext]_vars

\* The settings of a relay that is switched on and has its bot token.
RelayOn == {settings \in TelegramSettings :
              settings.row /\ settings.telegramEnabled /\ settings.telegramBotToken}

\* The relay with the settings switched on and a Telegram API that answers:
\* the timer keeps ticking and every awaited step of a poll comes back.
PollLiveNext ==
    \/ \E u \in Depositors, amount \in DepositAmounts : createDepositRequest(u, amount)
    \/ \E id \in 1..MaxDeposits, action \in CallbackActions : click(id, action)
    \/ pollSteps(RelayOn, {TRUE})

PollLiveSpec ==
    Init /\ [][PollLiveNext]_vars /\ WF_vars(pollSteps(RelayOn, {TRUE}))

NotifySpec == Init /\ [][NotifyNext]_vars

\* ---------------------------------------------------------------------------
\* routes/services.ts: the list and the detail of the services behind two
\* in-memory caches, and the invalidation of both.

\* The id of the one Service row, and a request parameter that is no number.
ServiceId == 1
NaN == -2
IdParams == {ServiceId, ServiceId + 1, NaN}

\* What findMany of GET / selects: the active services, by id.
findManyActive ==
    IF service.isActive
    THEN <<[id |-> ServiceId, price |-> service.price, min |-> service.min,
            max |-> service.max, isActive |-> TRUE]>>
    ELSE <<>>

\* What findUnique of GET /:id selects: the row, active or not, or nothing.
findUniqueService(id) ==
    IF id = ServiceId
    THEN <<[id |-> ServiceId, price |-> service.price, min |-> service.min,
            max |-> service.max, isActive |-> service.isActive]>>
    ELSE <<>>

\* The test both routes make on a cache entry.
fresh(entry, ttl) == entry.set /\ now - entry.ts < ttl

respond(status, data, readAt) ==
    served' = [status |-> status, data |-> data, readAt |-> readAt]

\* GET / up to its first await: the answer comes from servicesCache, or the
\* findMany is sent.
getServices(r) ==
    /\ requests[r].pc = "idle"
    /\ IF fresh(servicesCache, SERVICES_CACHE_TTL_MS)
       THEN /\ respond(200, servicesCache.data, servicesCache.readAt)
            /\ UNCHANGED requests
       ELSE /\ requests' = [requests EXCEPT ![r].pc = "findMany"]
            /\ UNCHANGED served
    /\ UNCHANGED <<service, balance, transactions, orders, deposits, adminLogs,
                   submission, jobVars, resolveVars, pollVars, servicesCache,
                   serviceDetailCache, syncing, invalidations, now>>

\* The store executes the findMany of GET / (or fails) and the request goes on
\* to the upsert of the settings row.
getServicesFound(r, ok) ==
    /\ requests[r].pc = "findMany"
    /\ IF ok
       THEN /\ requests' = [requests EXCEPT ![r] =
                  [pc |-> "upsert", id |-> Null, data |-> findManyActive,
                   readAt |-> invalidations]]
            /\ UNCHANGED served
       ELSE /\ requests' = [requests EXCEPT ![r] = NoRequest]
            /\ respond(500, <<>>, invalidations)
    /\ UNCHANGED <<service, balance, transactions, orders, deposits, adminLogs,
                   submission, jobVars, resolveVars, pollVars, servicesCache,
                   serviceDetailCache, syncing, invalidations, now>>

\* The upsert of GET / is back: the answer is put together, stored in
\* servicesCache and sent.
getServicesRespond(r, ok) ==
    /\ requests[r].pc = "upsert"
    /\ requests' = [requests EXCEPT ![r] = NoRequest]
    /\ IF ok
       THEN /\ servicesCache' = [set |-> TRUE, ts |-> now, data |-> requests[r].data,
                                 readAt |-> requests[r].readAt]
            /\ respond(200, requests[r].data, requests[r].readAt)
       ELSE /\ respond(500, <<>>, invalidations)
            /\ UNCHANGED servicesCache
    /\ UNCHANGED <<service, balance, transactions, orders, deposits, adminLogs,
                   submission, jobVars, resolveVars, pollVars, serviceDetailCache,
                   syncing, invalidations, now>>

\* GET /:id up to its await: a parameter that is no number is refused, the
\* answer comes from serviceDetailCache, or the findUnique is sent.
getService(r, id) ==
    /\ requests[r].pc = "idle"
    /\ IF id = NaN
       THEN /\ respond(400, <<>>, invalidations)
            /\ UNCHANGED requests
       ELSE IF id = ServiceId /\ fresh(serviceDetailCache, SERVICE_DETAIL_CACHE_TTL_MS)
       THEN /\ respond(200, serviceDetailCache.data, serviceDetailCache.readAt)
            /\ UNCHANGED requests
       ELSE /\ requests' = [requests EXCEPT ![r].pc = "findUnique", ![r].id = id]
            /\ UNCHANGED served
    /\ UNCHANGED <<service, balance, transactions, orders, deposits, adminLogs,
                   submission, jobVars, resolveVars, pollVars, servicesCache,
                   serviceDetailCache, syncing, invalidations, now>>

\* The store executes the findUnique of GET /:id, or fails.
getServiceFound(r, ok) ==
    /\ requests[r].pc = "findUnique"
    /\ IF ok
       THEN /\ requests' = [requests EXCEPT ![r].pc = "found",
                                            ![r].data = findUniqueService(requests[r].id),
                                            ![r].readAt = invalidations]
            /\ UNCHANGED served
       ELSE /\ requests' = [requests EXCEPT ![r] = NoRequest]
            /\ respond(500, <<>>, invalidations)
    /\ UNCHANGED <<service, balance, transactions, orders, deposits, adminLogs,
                   submission, jobVars, resolveVars, pollVars, servicesCache,
                   serviceDetailCache, syncing, invalidations, now>>

\* GET /:id goes on after its await: no row is a 404, a row is stored in
\* serviceDetailCache and sent.
getServiceRespond(r) ==
    /\ requests[r].pc = "found"
    /\ requests' = [requests EXCEPT ![r] = NoRequest]
    /\ IF requests[r].data = <<>>
       THEN /\ respond(404, <<>>, requests[r].readAt)
            /\ UNCHANGED serviceDetailCache
       ELSE /\ serviceDetailCache' = [set |-> TRUE, ts |-> now, data |-> requests[r].data,
                                      readAt |-> requests[r].readAt]
            /\ respond(200, requests[r].data, requests[r].readAt)
    /\ UNCHANGED <<service, balance, transactions, orders, deposits, adminLogs,
                   submission, jobVars, resolveVars, pollVars, servicesCache,
                   syncing, invalidations, now>>

invalidateCache ==
    /\ servicesCache' = NoEntry
    /\ serviceDetailCache' = NoEntry
    /\ invalidations' = invalidations + 1

\* POST /sync-services up to the end of syncServicesFromProvider; a sync that
\* throws goes to the error handler without touching the caches.
postSyncServices(svc, ok) ==
    /\ ~syncing
    /\ invalidations < MaxInvalidations
    /\ IF ok
       THEN service' = [service EXCEPT !.min = svc.min, !.max = svc.max]
       ELSE UNCHANGED service
    /\ syncing' = ok
    /\ UNCHANGED <<balance, transactions, orders, deposits, adminLogs, submission,
                   jobVars, resolveVars, pollVars, servicesCache, serviceDetailCache,
                   requests, served, invalidations, now>>

\* POST /sync-services after the sync: invalidateServicesCache().
postSyncServicesEnd ==
    /\ syncing
    /\ syncing' = FALSE
    /\ invalidateCache
    /\ UNCHANGED <<service, balance, transactions, orders, deposits, adminLogs,
                   submission, jobVars, resolveVars, pollVars, requests, served, now>>

\* POST /cache/invalidate.
postCacheInvalidate ==
    /\ invalidations < MaxInvalidations
    /\ ~syncing
    /\ invalidateCache
    /\ UNCHANGED <<service, balance, transactions, orders, deposits, adminLogs,
                   submission, jobVars, resolveVars, pollVars, requests, served,
                   syncing, now>>

\* Time goes by.
timePasses ==
    /\ now < MaxNow
    /\ now' = now + TimeStep
    /\ UNCHANGED <<service, balance, transactions, orders, deposits, adminLogs,
                   submission, jobVars, resolveVars, pollVars, servicesCache,
                   serviceDetailCache, requests, served, syncing, invalidations>>

CacheNext ==
    \/ \E r \in 1..MaxRequests : getServices(r)
    \/ \E r \in 1..MaxRequests, ok \in BOOLEAN : getServicesFound(r, ok)
    \/ \E r \in 1..MaxRequests, ok \in BOOLEAN : getServicesRespond(r, ok)
    \/ \E r \in 1..MaxRequests, id \in IdParams : getService(r, id)
    \/ \E r \in 1..MaxRequests, ok \in BOOLEAN : getServiceFound(r, ok)
    \/ \E r \in 1..MaxRequests : getServiceRespond(r)
    \/ \E svc \in ProviderLimits, ok \in BOOLEAN : postSyncServices(svc, ok)
    \/ postSyncServicesEnd
    \/ postCacheInvalidate
    \/ timePasses

CacheSpec == Init /\ [][CacheNext]_vars

Next ==
    \/ DepositNext \/ OrderNext \/ SyncNext \/ AuditNext \/ CatalogNext
    \/ RelayNext \/ NotifyNext \/ PollNext \/ CacheNext
    \/ \E status \in ReportedStatuses : updateServiceSyncStats(status)

\* The whole system from an empty store.
Spec == Init /\ [][Next]_vars

\* The ledger of the whole system from an empty store.
LedgerSpec == Init /\ [][LedgerNext]_vars

\* The audited admin routes and the log cleanup, from an empty store.
AuditSpec == Init /\ [][AuditNext]_vars

\* The deposit-request workflow on its own: every resolve channel, from an
\* empty store.
DepositSpec == Init /\ [][DepositNext]_vars

\* The store after one user's deposit request was approved on the admin route
\* and nothing else has happened.
InitFunded ==
    \E u \in Depositors, amount \in {x \in DepositAmounts : x > 0} :
        /\ service = Service
        /\ balance = [v \in Users |-> IF v = u THEN amount ELSE 0]
        /\ transactions = <<TxRow(u, "DEPOSIT", amount, "Deposit approved", 1)>>
        /\ deposits = <<[userId |-> u, amount |-> amount, status |-> "APPROVED",
                         processedAt |-> 1, processedById |-> "admin1",
                         adminNote |-> NullId]>>
        /\ orders = <<>>
        /\ adminLogs = <<>>
        /\ submission = <<>>
        /\ attempts = [a \in 1..MaxAttempts |-> IdleAttempt]
        /\ response = [channel |-> "admin", id |-> 1, result |-> "ok"]
        /\ jobStatus = "idle"
        /\ batch = <<>>
        /\ refunding = "none"
        /\ totalRuns = 0
        /\ processed = 0
        /\ updated = 0
        /\ failed = 0
        /\ lastResult = NoResult
        /\ answers = <<>>
        /\ executions = 0
        /\ logCleanup = NoCleanup
        /\ serviceSync = NoServiceSync
        /\ jobHistory = <<>>
        /\ skipped = FALSE
        /\ reported = [id \in 1..MaxOrders |-> 0]
        /\ clock = 2
        /\ PollIdle
        /\ CacheEmpty
        /\ totalErrors = 0

\* The order lifecycle while the catalog is edited.
CatalogOrderNext == OrderNext \/ CatalogNext

CatalogSpec == InitFunded /\ [][CatalogOrderNext]_vars

\* The quantities at and next to the limits of the catalog entry.
OrderQuantities == {99, 100, 1000, 2000, 2001}

\* Order creation, cancellation and admin refund while the catalog is edited.
CreationNext ==
    \/ \E u \in Users, quantity \in OrderQuantities : createOrder(u, quantity)
    \/ \E u \in Users, id \in 1..MaxOrders : cancelOrder(u, id)
    \/ \E id \in 1..MaxOrders, adminId \in Admins, ok \in BOOLEAN :
          adminRefund(id, adminId, "reason", ok)
    \/ CatalogNext

CreationSpec == InitFunded /\ [][CreationNext]_vars

\* The order lifecycle and the reconciliation job on their own, for a user
\* who holds a balance.
OrderSpec == InitFunded /\ [][OrderNext]_vars

\* The store when a user has spent an approved deposit on MaxBacklog orders
\* and the provider has accepted them all.
InitBacklog ==
    LET charge == Ceil(1000 * Service.price, 1000)
        u == "u1"
    IN  /\ service = Service
        /\ balance = [v \in Users |-> 0]
        /\ transactions =
              <<TxRow(u, "DEPOSIT", MaxBacklog * charge, "Deposit approved", 1)>>
              \o [i \in 1..MaxBacklog |-> TxRow(u, "ORDER", -charge, "Order", i)]
        /\ deposits = <<[userId |-> u, amount |-> MaxBacklog * charge,
                         status |-> "APPROVED", processedAt |-> 1,
                         processedById |-> "admin1", adminNote |-> NullId]>>
        /\ orders = [i \in 1..MaxBacklog |->
              [userId |-> u, quantity |-> 1000, charge |-> charge,
               status |-> "PROCESSING", providerOrderId |-> 7000 + i,
               startCount |-> Null, remains |-> Null]]
        /\ adminLogs = <<>>
        /\ submission = [i \in 1..MaxBacklog |-> [pc |-> "submitted", order |-> 7000 + i]]
        /\ attempts = [a \in 1..MaxAttempts |-> IdleAttempt]
        /\ response = [channel |-> "admin", id |-> 1, result |-> "ok"]
        /\ jobStatus = "idle"
        /\ batch = <<>>
        /\ refunding = "none"
        /\ totalRuns = 0
        /\ processed = 0
        /\ updated = 0
        /\ failed = 0
        /\ lastResult = NoResult
        /\ answers = <<>>
        /\ executions = 0
        /\ logCleanup = NoCleanup
        /\ serviceSync = NoServiceSync
        /\ jobHistory = <<>>
        /\ skipped = FALSE
        /\ reported = [id \in 1..MaxBacklog |-> 0]
        /\ clock = 2
        /\ PollIdle
        /\ CacheEmpty
        /\ totalErrors = 0

SyncSpec == InitBacklog /\ [][SyncNext]_vars

\* The status the n-th service sync reported, in a past where every second
\* one failed.
ReportedStatus(n) == IF n % 2 = 0 THEN "failed" ELSE "completed"

\* The backlog of InitBacklog in a process whose service sync has reported
\* MAX_HISTORY - 1 times and whose other jobs have not run yet.
InitHistory ==
    LET charge == Ceil(1000 * Service.price, 1000)
        u == "u1"
    IN  /\ service = Service
        /\ balance = [v \in Users |-> 0]
        /\ transactions =
              <<TxRow(u, "DEPOSIT", MaxBacklog * charge, "Deposit approved", 1)>>
              \o [i \in 1..MaxBacklog |-> TxRow(u, "ORDER", -charge, "Order", i)]
        /\ deposits = <<[userId |-> u, amount |-> MaxBacklog * charge,
                         status |-> "APPROVED", processedAt |-> 1,
                         processedById |-> "admin1", adminNote |-> NullId]>>
        /\ orders = [i \in 1..MaxBacklog |->
              [userId |-> u, quantity |-> 1000, charge |-> charge,
               status |-> "PROCESSING", providerOrderId |-> 7000 + i,
               startCount |-> Null, remains |-> Null]]
        /\ adminLogs = <<>>
        /\ submission = [i \in 1..MaxBacklog |-> [pc |-> "submitted", order |-> 7000 + i]]
        /\ attempts = [a \in 1..MaxAttempts |-> IdleAttempt]
        /\ response = [channel |-> "admin", id |-> 1, result |-> "ok"]
        /\ jobStatus = "idle"
        /\ batch = <<>>
        /\ refunding = "none"
        /\ totalRuns = 0
        /\ processed = 0
        /\ updated = 0
        /\ failed = 0
        /\ lastResult = NoResult
        /\ answers = <<>>
        /\ executions = 0
        /\ logCleanup = NoCleanup
        /\ serviceSync = [status |-> ReportedStatus(MAX_HISTORY - 1),
                          totalRuns |-> MAX_HISTORY - 1,
                          totalErrors |-> (MAX_HISTORY - 1) \div 2]
        /\ jobHistory = [i \in 1..(MAX_HISTORY - 1) |->
              JobHistory("serviceSync", ReportedStatus(MAX_HISTORY - i))]
        /\ skipped = FALSE
        /\ reported = [id \in 1..MaxBacklog |-> 0]
        /\ clock = 2
        /\ PollIdle
        /\ CacheEmpty
        /\ totalErrors = 0

\* The jobs that write the job history.  The provider reports every order it
\* is asked about as completed, or the request fails.
HistoryNext ==
    \/ \E status \in ReportedStatuses : updateServiceSyncStats(status)
    \/ \E ok \in BOOLEAN : cleanupOldLogs(ok)
    \/ \E ok \in BOOLEAN : syncStart(ok)
    \/ \E queryOk \in BOOLEAN :
          syncOrder([status |-> "Completed", start_count |-> 0, remains |-> 0],
                    queryOk, TRUE)
    \/ syncFinish

HistorySpec == InitHistory /\ [][HistoryNext]_vars

\* What a run in progress does next: an iteration of the loop, the refund of
\* an iteration, or the end of the loop.
syncContinues ==
    \/ \E status \in ProviderStatuses, counts \in ProviderCounts,
          queryOk \in BOOLEAN, ok \in BOOLEAN :
          syncOrder([status |-> status, start_count |-> counts.start_count,
                     remains |-> counts.remains], queryOk, ok)
    \/ \E ok \in BOOLEAN : syncRefund(ok)
    \/ syncFinish

\* The reconciliation job when every store and provider call it awaits
\* returns or throws: a run in progress goes on.
SyncLiveSpec == InitBacklog /\ [][SyncNext]_vars /\ WF_vars(syncContinues)

\* The store when a user has spent an approved deposit on one order more than
\* a batch takes and the provider has accepted them all.
InitOverfull ==
    LET charge == Ceil(1000 * Service.price, 1000)
        u == "u1"
    IN  /\ service = Service
        /\ balance = [v \in Users |-> 0]
        /\ transactions =
              <<TxRow(u, "DEPOSIT", (BatchSize + 1) * charge, "Deposit approved", 1)>>
              \o [i \in 1..(BatchSize + 1) |-> TxRow(u, "ORDER", -charge, "Order", i)]
        /\ deposits = <<[userId |-> u, amount |-> (BatchSize + 1) * charge,
                         status |-> "APPROVED", processedAt |-> 1,
                         processedById |-> "admin1", adminNote |-> NullId]>>
        /\ orders = [i \in 1..(BatchSize + 1) |->
              [userId |-> u, quantity |-> 1000, charge |-> charge,
               status |-> "PROCESSING", providerOrderId |-> 7000 + i,
               startCount |-> Null, remains |-> Null]]
        /\ adminLogs = <<>>
        /\ submission = [i \in 1..(BatchSize + 1) |->
              [pc |-> "submitted", order |-> 7000 + i]]
        /\ attempts = [a \in 1..MaxAttempts |-> IdleAttempt]
        /\ response = [channel |-> "admin", id |-> 1, result |-> "ok"]
        /\ jobStatus = "idle"
        /\ batch = <<>>
        /\ refunding = "none"
        /\ totalRuns = 0
        /\ processed = 0
        /\ updated = 0
        /\ failed = 0
        /\ lastResult = NoResult
        /\ answers = <<>>
        /\ executions = 0
        /\ logCleanup = NoCleanup
        /\ serviceSync = NoServiceSync
        /\ jobHistory = <<>>
        /\ skipped = FALSE
        /\ reported = [id \in 1..(BatchSize + 1) |-> 0]
        /\ clock = 2
        /\ PollIdle
        /\ CacheEmpty
        /\ totalErrors = 0

\* The reconciliation job over that backlog when the store answers and the
\* provider reports every order it is asked about as still in progress.
StarveNext ==
    \/ syncStart(TRUE)
    \/ syncOrder([status |-> "In progress", start_count |-> 0, remains |-> 0],
                 TRUE, TRUE)
    \/ syncFinish

\* The scheduler keeps invoking the job and a run in progress goes on.
StarveSpec == InitOverfull /\ [][StarveNext]_vars /\ WF_vars(StarveNext)

\* ------------------------------------------------------------------ claims
IsApprove(action) == action \in {"approve", "APPROVE"}
IsReject(action) == action \in {"reject", "REJECT"}
RefundedStatuses == {"CANCELED", "FAILED"}

\* REFUND rows the reconciliation job wrote for an order, and those of the
\* other writers (admin refund, user cancel, submission failure).
SyncRefunds(o) ==
    {i \in TxOf("REFUND", o) : transactions[i].description = "Order status: id"}
OtherRefunds(o) == TxOf("REFUND", o) \ SyncRefunds(o)

\* transactions' is transactions with one row appended: a row of this type
\* and amount for this user.
Appended(u, type, amount) ==
    /\ Len(transactions') = Len(transactions) + 1
    /\ SubSeq(transactions', 1, Len(transactions)) = transactions
    /\ transactions'[Len(transactions')].userId = u
    /\ transactions'[Len(transactions')].type = type
    /\ transactions'[Len(transactions')].amount = amount

\* C1: in every committed state each user's balance is 0 plus the sum of the
\* amounts of that user's Transaction rows.
C1_BalanceIsLedgerSum ==
    \A u \in Users : balance[u] = SumAmounts(transactions, u)

\* A deposit was approved, and the same order was refunded both by the
\* reconciliation job and by an admin.
C1_Witness ==
    \E o \in OrderIds :
        /\ SyncRefunds(o) # {}
        /\ OtherRefunds(o) # {}
        /\ \E d \in DepositIds : TxOf("DEPOSIT", d) # {}
        /\ balance[orders[o].userId] > 0

\* C2: whatever the interleaving of resolve attempts, at most one DEPOSIT row
\* is created (and the amount credited at most once) for a deposit request.
C2_CreditedAtMostOnce ==
    \A d \in DepositIds : Cardinality(TxOf("DEPOSIT", d)) <= 1

\* C3: once a deposit request is APPROVED or REJECTED no step changes its
\* status, processedAt, processedById or adminNote.
C3_ResolvedRowIsFrozen ==
    [][\A d \in DepositIds :
          deposits[d].status # "PENDING" => deposits'[d] = deposits[d]]_vars

\* C4: a resolve attempt that starts when the request's committed status is no
\* longer PENDING never reaches its write: it answers at once, on the admin
\* route and in the relay with "already processed", and the step leaves
\* balances, Transaction rows and DepositRequest rows as they were.
C4_LateAttemptIsRejected ==
    [][/\ \A a \in 1..MaxAttempts :
            (attempts[a].pc = "idle" /\ attempts'[a].pc = "read")
               => deposits[attempts'[a].id].status = "PENDING"
       /\ (attempts' = attempts /\ response' # response)
             => /\ UNCHANGED <<balance, transactions, deposits>>
                /\ (/\ response'.id \in DepositIds
                    /\ deposits[response'.id].status # "PENDING"
                    /\ response'.channel \in {"admin", "polling"})
                      => response'.result = "AlreadyProcessed"]_vars

\* The relay answered "already processed" for a request the store holds as
\* APPROVED.
C4_Witness ==
    /\ response.channel = "polling"
    /\ response.result = "AlreadyProcessed"
    /\ response.id \in DepositIds
    /\ deposits[response.id].status = "APPROVED"

\* C5: the write of an approve attempt on a PENDING request either credits the
\* owner by exactly the amount, appends exactly one DEPOSIT row of that amount
\* and makes the request APPROVED with processedAt stamped, or changes none of
\* balances, Transaction rows and DepositRequest rows.
C5_ApproveAllOrNothing ==
    [][\A a \in 1..MaxAttempts :
          (/\ attempts[a].pc = "read"
           /\ attempts'[a].pc = "idle"
           /\ IsApprove(attempts[a].action)
           /\ deposits[attempts[a].id].status = "PENDING")
          => LET d == attempts[a].id
                 u == deposits[d].userId
                 amount == deposits[d].amount
             IN  \/ /\ balance' = [balance EXCEPT ![u] = @ + amount]
                    /\ Appended(u, "DEPOSIT", amount)
                    /\ deposits'[d].status = "APPROVED"
                    /\ deposits'[d].processedAt # Null
                    /\ \A e \in DepositIds \ {d} : deposits'[e] = deposits[e]
                 \/ UNCHANGED <<balance, transactions, deposits>>]_vars

\* A request is APPROVED, its owner holds exactly its amount and the ledger
\* has the one DEPOSIT row.
C5_Witness ==
    \E d \in DepositIds :
        /\ deposits[d].status = "APPROVED"
        /\ deposits[d].processedAt # Null
        /\ Cardinality(TxOf("DEPOSIT", d)) = 1
        /\ balance[deposits[d].userId] = deposits[d].amount
        /\ response.result = "ok"

\* C6: the write of a reject attempt on a PENDING request leaves every balance
\* and the Transaction rows unchanged, and sets the status to REJECTED unless
\* the store call threw (then the row is unchanged too).
C6_RejectHasNoLedgerEffect ==
    [][\A a \in 1..MaxAttempts :
          (/\ attempts[a].pc = "read"
           /\ attempts'[a].pc = "idle"
           /\ IsReject(attempts[a].action)
           /\ deposits[attempts[a].id].status = "PENDING")
          => /\ UNCHANGED <<balance, transactions>>
             /\ \/ deposits'[attempts[a].id].status = "REJECTED"
                \/ UNCHANGED deposits
             /\ (attempts[a].channel # "webhook" /\ response'.result = "ok")
                   => deposits'[attempts[a].id].status = "REJECTED"]_vars

\* A request was rejected and there is neither a balance nor a ledger row.
C6_Witness ==
    \E d \in DepositIds :
        /\ deposits[d].status = "REJECTED"
        /\ transactions = <<>>
        /\ \A u \in Users : balance[u] = 0
        /\ response.result = "ok"

\* C7: when the provider has answered Canceled, Refunded or Failed for an
\* order in two or more runs, the runs are over and the order carries that
\* status (no other writer refunded it), the job has credited the charge back
\* with exactly one REFUND row.
C7_ExactlyOneSyncRefund ==
    \A o \in OrderIds :
        (/\ reported[o] >= 2
         /\ jobStatus = "completed"
         /\ orders[o].status \in RefundedStatuses
         /\ OtherRefunds(o) = {})
        => Cardinality(SyncRefunds(o)) = 1

\* C8: in every committed state an order that is CANCELED or FAILED has a
\* REFUND row crediting its charge.
C8_RefundedStatusHasRefund ==
    \A o \in OrderIds :
        orders[o].status \in RefundedStatuses
        => \E i \in TxOf("REFUND", o) : transactions[i].amount = orders[o].charge

\* C9: the step in which submitOrderToProvider compensates a failed submission
\* sets the order FAILED, credits the owner by exactly the charge and appends
\* exactly one REFUND row of +charge, all at once; when that batch throws
\* nothing is written; and a finished submission task never runs again.
C9_SubmitFailureIsAtomic ==
    [][\A o \in OrderIds :
          /\ (submission[o].pc = "inflight" /\ submission'[o].pc = "refunded")
                => /\ orders'[o].status = "FAILED"
                   /\ balance' = [balance EXCEPT ![orders[o].userId] = @ + orders[o].charge]
                   /\ Appended(orders[o].userId, "REFUND", orders[o].charge)
          /\ (submission[o].pc = "inflight" /\ submission'[o].pc = "crashed")
                => UNCHANGED <<balance, transactions, orders>>
          /\ submission[o].pc \in {"submitted", "refunded", "crashed"}
                => submission'[o] = submission[o]]_vars

\* A submission failed before the provider accepted it, and the order is
\* FAILED with its one REFUND row and the balance restored.
C9_Witness ==
    \E o \in OrderIds :
        /\ submission[o].pc = "refunded"
        /\ submission[o].order = Null
        /\ orders[o].status = "FAILED"
        /\ Cardinality(TxOf("REFUND", o)) = 1
        /\ balance[orders[o].userId] = SumAmounts(transactions, orders[o].userId)
        /\ balance[orders[o].userId] >= orders[o].charge

\* C10: when the job comes to an order of its batch that was meanwhile moved
\* to CANCELED or FAILED with a refund, it does not go on to credit the charge
\* again.
C10_NoSecondCredit ==
    [][(/\ jobStatus = "running"
        /\ refunding = "none"
        /\ batch # <<>>
        /\ orders[Head(batch).id].status \in RefundedStatuses
        /\ TxOf("REFUND", Head(batch).id) # {})
       => refunding' = "none"]_vars

\* C11: when the submission task compensates a failure for an order whose
\* committed status is already CANCELED or FAILED, it credits nothing and
\* appends no Transaction row.
C11_NoRefundAfterRefund ==
    [][\A o \in OrderIds :
          (/\ submission[o].pc \in {"inflight", "accepted"}
           /\ submission'[o].pc = "refunded"
           /\ orders[o].status \in RefundedStatuses)
          => UNCHANGED <<balance, transactions>>]_vars

\* The provider's answer in the latest iteration of the run in progress.
LastAnswer == IF answers = <<>> THEN "none" ELSE answers[Len(answers)]

TerminalStatuses == {"COMPLETED", "CANCELED", "FAILED"}

\* The step is one iteration of the job's loop, up to the end of order.update.
IsSyncOrderStep ==
    /\ jobStatus = "running"
    /\ batch # <<>>
    /\ Len(answers') = Len(answers) + 1

\* C12: an iteration of the job on an order whose committed status is
\* COMPLETED, CANCELED or FAILED (also when it became so after the batch was
\* selected) does not change that order's status.
C12_TerminalIsFinal ==
    [][(IsSyncOrderStep /\ orders[Head(batch).id].status \in TerminalStatuses)
          => orders'[Head(batch).id].status = orders[Head(batch).id].status]_vars

\* C13: a run of the job whose query succeeds has every PARTIAL order that
\* carries a provider order id in its batch.
C13_PartialIsSelected ==
    [][(totalRuns' = totalRuns + 1 /\ jobStatus' # "failed")
          => \A o \in OrderIds :
                (orders[o].status = "PARTIAL" /\ orders[o].providerOrderId # Null)
                => \E i \in 1..Len(batch') : batch'[i].id = o]_vars

\* The keys of the job's mapping table.
MappedKeys ==
    {"Pending", "In progress", "Processing", "Completed", "Partial", "Canceled",
     "Refunded", "Failed"}

\* C14: an iteration in which the provider's answer carries a status that is
\* not a key of the mapping table, or no status, leaves every order row
\* (status, startCount, remains), every balance and the Transaction rows
\* unchanged and schedules no refund.
C14_UnmappedStatusChangesNothing ==
    [][(IsSyncOrderStep /\ LastAnswer' \notin (MappedKeys \cup {"threw"}))
          => /\ UNCHANGED <<orders, balance, transactions>>
             /\ refunding' = "none"]_vars

\* The provider answered with an unmapped status for a PROCESSING order and
\* the iteration is over.
C14_Witness ==
    /\ jobStatus = "running"
    /\ LastAnswer = "Unknown"
    /\ batch = <<>>
    /\ \E o \in OrderIds : orders[o].status = "PROCESSING" /\ orders[o].startCount = Null

\* C15: an iteration whose provider query throws leaves the order row, the
\* balances and the Transaction rows unchanged, counts one failure and goes on
\* with the rest of the batch; a run in progress ends only when its batch is
\* used up and then as 'completed'; and a run whose query succeeds selects
\* every order that still needs a sync, the one that failed included.
C15_QueryFailureSkipsOneOrder ==
    [][/\ (IsSyncOrderStep /\ LastAnswer' = "threw")
             => /\ UNCHANGED <<orders, balance, transactions, jobStatus>>
                /\ failed' = failed + 1
                /\ batch' = Tail(batch)
                /\ needsSync(orders[Head(batch).id]) => needsSync(orders'[Head(batch).id])
       /\ (jobStatus = "running" /\ jobStatus' # "running")
             => (batch = <<>> /\ jobStatus' = "completed"
                 /\ lastResult'.failed = failed /\ lastResult'.processed = processed)
       /\ (totalRuns' = totalRuns + 1 /\ jobStatus' # "failed")
             => \A o \in OrderIds :
                   needsSync(orders[o]) => \E i \in 1..Len(batch') : batch'[i].id = o]_vars

\* The query for the first order of a batch of two threw, the second order
\* was then brought to COMPLETED, and the first is as it was.
C15_Witness ==
    /\ jobStatus = "running"
    /\ batch = <<>>
    /\ answers = <<"threw", "Completed">>
    /\ failed = 1
    /\ updated = 1
    /\ \E o, q \in OrderIds :
          /\ orders[o].status = "PROCESSING"
          /\ orders[q].status = "COMPLETED"

AdminRefunds(o) ==
    {i \in TxOf("REFUND", o) : transactions[i].description = "Admin refund: reason"}

\* The step is a request to the admin refund route that was answered.
IsAdminRefundStep ==
    /\ response'.channel = "refund"
    /\ (response' # response \/ adminLogs' # adminLogs)

\* C17: an admin refund of an existing order sets it CANCELED, credits the
\* owner by exactly the charge, appends exactly one REFUND row of +charge and
\* exactly one ORDER_REFUND audit row, all in one step, or (when the batch
\* throws) writes nothing; for an id without an order it answers NotFound and
\* writes nothing.
C17_AdminRefundIsAtomic ==
    [][IsAdminRefundStep
         => LET o == response'.id IN
            IF o \notin OrderIds
            THEN /\ response'.result = "NotFound"
                 /\ UNCHANGED <<balance, transactions, orders, adminLogs>>
            ELSE \/ /\ response'.result = "ok"
                    /\ orders'[o].status = "CANCELED"
                    /\ \A q \in OrderIds \ {o} : orders'[q] = orders[q]
                    /\ balance' = [balance EXCEPT ![orders[o].userId] = @ + orders[o].charge]
                    /\ Appended(orders[o].userId, "REFUND", orders[o].charge)
                    /\ Len(adminLogs') = Len(adminLogs) + 1
                    /\ SubSeq(adminLogs', 1, Len(adminLogs)) = adminLogs
                    /\ adminLogs'[Len(adminLogs')].action = "ORDER_REFUND"
                    /\ adminLogs'[Len(adminLogs')].targetId = o
                    /\ adminLogs'[Len(adminLogs')].adminId \in Admins
                 \/ /\ response'.result # "ok"
                    /\ UNCHANGED <<balance, transactions, orders, adminLogs>>]_vars

\* An order in the hands of the provider was refunded by an admin: it is
\* CANCELED, has its REFUND row and its audit row, and the owner has the
\* charge back.
C17_Witness ==
    \E o \in OrderIds :
        /\ response = [channel |-> "refund", id |-> o, result |-> "ok"]
        /\ orders[o].status = "CANCELED"
        /\ orders[o].providerOrderId # Null
        /\ Cardinality(AdminRefunds(o)) = 1
        /\ Len(adminLogs) = 1
        /\ adminLogs[1].targetId = o
        /\ balance[orders[o].userId] = deposits[1].amount

\* C18: a request to the admin refund route for an existing order is never
\* turned away because of the order's status or an earlier refund: unless
\* the store throws it credits the charge and appends a REFUND row, every
\* time.
C18_AdminRefundHasNoStateGuard ==
    [][\A o \in OrderIds :
          (IsAdminRefundStep /\ response'.id = o)
          => /\ response'.result \in {"ok", "error"}
             /\ response'.result = "ok"
                   => /\ Cardinality(AdminRefunds(o)') = Cardinality(AdminRefunds(o)) + 1
                      /\ balance'[orders[o].userId] =
                            balance[orders[o].userId] + orders[o].charge]_vars

\* The same order was refunded twice by an admin: two REFUND rows, and the
\* owner holds one charge more than was deposited.
C18_Witness ==
    \E o \in OrderIds :
        /\ Cardinality(AdminRefunds(o)) = 2
        /\ OtherRefunds(o) = AdminRefunds(o)
        /\ balance[orders[o].userId] = deposits[1].amount + orders[o].charge

\* C19: every admin refund and every admin approve or reject of a deposit
\* request that commits appends one audit row naming the admin, the action
\* and the target, and no step changes or removes an audit row.
C19_AuditLogIsCompleteAndKept ==
    [][/\ Len(adminLogs') >= Len(adminLogs)
       /\ SubSeq(adminLogs', 1, Len(adminLogs)) = adminLogs
       /\ \A a \in 1..MaxAttempts :
             (/\ attempts[a].pc = "read"
              /\ attempts[a].channel = "admin"
              /\ attempts'[a].pc = "idle"
              /\ response'.result = "ok")
             => /\ Len(adminLogs') = Len(adminLogs) + 1
                /\ adminLogs'[Len(adminLogs')].adminId \in Admins
                /\ adminLogs'[Len(adminLogs')].targetId = attempts[a].id
       /\ (IsAdminRefundStep /\ response'.result = "ok")
             => /\ Len(adminLogs') = Len(adminLogs) + 1
                /\ adminLogs'[Len(adminLogs')].adminId \in Admins
                /\ adminLogs'[Len(adminLogs')].action = "ORDER_REFUND"
                /\ adminLogs'[Len(adminLogs')].targetId = response'.id]_vars

\* C20: in every committed state every user's balance is zero or more.
C20_BalanceNeverNegative ==
    \A u \in Users : balance[u] >= 0

\* C21: no step changes the charge of an order, and every REFUND row a step
\* appends for an order carries the charge stored on that order.
C21_ChargeIsImmutable ==
    [][/\ \A o \in OrderIds : orders'[o].charge = orders[o].charge
       /\ (/\ Len(transactions') = Len(transactions) + 1
           /\ transactions'[Len(transactions')].type = "REFUND")
             => transactions'[Len(transactions')].amount =
                   orders[transactions'[Len(transactions')].ref].charge]_vars

\* An order was refunded after the price of its service was changed: the
\* REFUND row carries the order's charge, which is no longer what the order
\* would cost.
C21_Witness ==
    \E o \in OrderIds :
        /\ orders[o].charge # Ceil(orders[o].quantity * service.price, 1000)
        /\ TxOf("REFUND", o) # {}
        /\ \A i \in TxOf("REFUND", o) : transactions[i].amount = orders[o].charge
        /\ balance[orders[o].userId] = deposits[1].amount

\* C22: every step leaves the rows the Transaction ledger already holds as
\* they are, in their order, and at most adds rows after them.
C22_LedgerIsAppendOnly ==
    [][/\ Len(transactions') >= Len(transactions)
       /\ SubSeq(transactions', 1, Len(transactions)) = transactions]_vars

\* The ledger has grown through a deposit approval, an order creation and a
\* refund, in that order.
C22_Witness ==
    /\ Len(transactions) >= 3
    /\ transactions[1].type = "DEPOSIT"
    /\ transactions[2].type = "ORDER"
    /\ transactions[3].type = "REFUND"

\* C23: the job history never holds more than MAX_HISTORY entries, and every
\* step that changes it puts one new entry in front of the entries it held,
\* keeps their order, and drops the last of them exactly when it was full.
C23_JobHistoryIsBounded ==
    /\ [](Len(jobHistory) <= MAX_HISTORY)
    /\ [][jobHistory' # jobHistory =>
            /\ Len(jobHistory') = Min(Len(jobHistory) + 1, MAX_HISTORY)
            /\ Tail(jobHistory') = SubSeq(jobHistory, 1, Len(jobHistory') - 1)]_vars

\* The history is full and entries of every job have been added in front of
\* the reports it started with, whose oldest ones are gone.
C23_Witness ==
    /\ Len(jobHistory) = MAX_HISTORY
    /\ jobHistory[1].jobName = "orderSync"
    /\ jobHistory[2].jobName = "logCleanup"
    /\ jobHistory[3].jobName = "serviceSync"
    /\ serviceSync.totalRuns = MAX_HISTORY
    /\ Len(SelectSeq(jobHistory, LAMBDA e : e.jobName = "serviceSync")) = MAX_HISTORY - 2

\* Tokens of the button's shape whose kind is not 'deposit', whose id is empty
\* or whose action is neither APPROVE nor REJECT.
IgnoredTokens ==
    {Token(r.kind, r.id, r.word) :
        r \in {q \in [kind : Kinds, id : IdStrings \cup {<<>>}, word : ActionWords] :
                 \/ q.kind # "deposit"
                 \/ q.id = <<>>
                 \/ q.word \notin CallbackActions}}

\* C24: when the relay is handed the data of a notification button for a
\* request id without separator, it goes on exactly as a resolve of that id
\* with that action does; when it is handed a token of another kind, with an
\* empty id or with another action, no row, balance or pending resolve changes.
C24_CallbackTokenRoundTrip ==
    [][\A a \in 1..MaxAttempts, data \in CallbackTokens :
          processCallbackQuery(a, data) =>
            /\ \A n \in 1..(MaxDeposits + 1), action \in CallbackActions :
                  data = callbackData(RowId(n), action) =>
                     processCallbackQueryRead(
                        a, IF n \in DepositIds THEN n ELSE Null, action)
            /\ data \in IgnoredTokens =>
                  UNCHANGED <<balance, transactions, orders, deposits, adminLogs,
                              attempts>>]_vars

\* A request was approved through its button's token, and a token that is
\* not a deposit decision was dropped afterwards.
C24_Witness ==
    /\ Len(deposits) >= 1
    /\ deposits[1].status = "APPROVED"
    /\ deposits[1].adminNote = "Processed via Telegram (VPS)"
    /\ balance[deposits[1].userId] = deposits[1].amount
    /\ response = [channel |-> "polling", id |-> Null, result |-> "ignored"]

\* C25: a notification request with a complete body is answered success
\* whatever the settings are and whether or not the send goes through, and
\* the step changes no DepositRequest, balance or Transaction row.
C25_NotifyNeverFails ==
    [][\A id \in 1..MaxDeposits, settings \in TelegramSettings, sendOk \in BOOLEAN :
          notify(id, TRUE, settings, sendOk) =>
            /\ response'.result = "success"
            /\ UNCHANGED <<deposits, balance, transactions>>]_vars

\* The send of the notification for a pending request failed and the caller
\* was answered success.
C25_Witness ==
    /\ response.channel = "notify"
    /\ response.logged = "failed"
    /\ response.result = "success"
    /\ response.id \in DepositIds
    /\ deposits[response.id].status = "PENDING"
    /\ transactions = <<>>

\* C26: a creation request for an active service, a quantity within the
\* limits and a balance that covers charge = ceil(quantity * price / 1000)
\* adds one PENDING order with that charge, takes exactly the charge off the
\* user's balance and adds one ORDER row of -charge; any other creation
\* request changes no order, balance or Transaction row.
C26_OrderCreationIsAtomic ==
    [][\A u \in Users, quantity \in OrderQuantities :
          createOrder(u, quantity) =>
            LET charge == Ceil(quantity * service.price, 1000)
                id == Len(orders) + 1
            IN  IF /\ service.isActive
                   /\ service.min <= quantity /\ quantity <= service.max
                   /\ balance[u] >= charge
                THEN /\ Len(orders') = id
                     /\ SubSeq(orders', 1, Len(orders)) = orders
                     /\ orders'[id].status = "PENDING"
                     /\ orders'[id].charge = charge
                     /\ orders'[id].userId = u
                     /\ balance' = [balance EXCEPT ![u] = @ - charge]
                     /\ Len(transactions') = Len(transactions) + 1
                     /\ SubSeq(transactions', 1, Len(transactions)) = transactions
                     /\ transactions'[Len(transactions')].type = "ORDER"
                     /\ transactions'[Len(transactions')].amount = -charge
                     /\ transactions'[Len(transactions')].userId = u
                ELSE UNCHANGED <<orders, balance, transactions, deposits>>]_vars

\* Scenario A: a user with balance 10000 has ordered 1000 units at 5000 per
\* 1000: the order is PENDING with charge 5000, the balance is 5000 and the
\* ledger holds one ORDER row of -5000.
C26_Witness ==
    /\ Len(orders) = 1
    /\ orders[1].status = "PENDING"
    /\ orders[1].quantity = 1000
    /\ orders[1].charge = 5000
    /\ balance[orders[1].userId] = 5000
    /\ TxOf("ORDER", 1) # {}
    /\ \A i \in TxOf("ORDER", 1) : transactions[i].amount = -5000
    /\ response = [channel |-> "order", id |-> 1, result |-> "ok"]

\* C27: the step that ends a submission in success leaves the order
\* PROCESSING with the provider's order id, written together, and changes no
\* balance or Transaction row; and no other step writes providerOrderId.
C27_SuccessRecordsProviderOrder ==
    [][\A o \in OrderIds :
          /\ (submission[o].pc = "accepted" /\ submission'[o].pc = "submitted") =>
                /\ orders'[o].status = "PROCESSING"
                /\ orders'[o].providerOrderId = submission[o].order
                /\ orders'[o].providerOrderId # Null
                /\ UNCHANGED <<balance, transactions>>
          /\ orders'[o].providerOrderId # orders[o].providerOrderId =>
                (submission[o].pc = "accepted" /\ submission'[o].pc = "submitted")]_vars

\* A submission has ended in success: the order is PROCESSING with the
\* provider's order id and the ledger holds the deposit and the debit only.
C27_Witness ==
    \E o \in OrderIds :
        /\ submission[o].pc = "submitted"
        /\ orders[o].status = "PROCESSING"
        /\ orders[o].providerOrderId \in ProviderOrderIds
        /\ Len(transactions) = 2
        /\ TxOf("REFUND", o) = {}
        /\ balance[orders[o].userId] = deposits[1].amount - orders[o].charge

\* C28: a submission that ends in success for an order that was CANCELED
\* while the request was in flight leaves the order CANCELED.
C28_SuccessKeepsCanceled ==
    [][\A o \in OrderIds :
          (/\ submission[o].pc = "accepted"
           /\ submission'[o].pc = "submitted"
           /\ orders[o].status = "CANCELED") => orders'[o].status = "CANCELED"]_vars

\* C29: once the provider has accepted an order, the submission path does not
\* end by marking it FAILED or by crediting a refund for it.
C29_AcceptedIsNotFailed ==
    [][\A o \in OrderIds :
          (submission[o].pc = "accepted" /\ submission'[o].pc # "accepted") =>
             /\ orders'[o].status # "FAILED"
             /\ UNCHANGED <<balance, transactions>>]_vars

\* C30: a DepositRequest is APPROVED exactly when the ledger holds one DEPOSIT
\* row of its amount for it, and a PENDING or REJECTED one has none.
C30_ApprovedIffOneCredit ==
    \A d \in DepositIds :
        /\ deposits[d].status = "APPROVED" <=>
              /\ Cardinality(TxOf("DEPOSIT", d)) = 1
              /\ \A i \in TxOf("DEPOSIT", d) : transactions[i].amount = deposits[d].amount
        /\ deposits[d].status \in {"PENDING", "REJECTED"} => TxOf("DEPOSIT", d) = {}

\* C31: a run of the order-status sync that is in progress eventually ends
\* with the job's status 'completed' or 'failed', and a step that starts a run
\* leaves the status 'running', 'completed' or 'failed'.
C31_RunEventuallyEnds ==
    /\ (jobStatus = "running") ~> (jobStatus \in {"completed", "failed"})
    /\ [][totalRuns' # totalRuns =>
            jobStatus' \in {"running", "completed", "failed"}]_vars

\* A run over the whole backlog has ended 'completed' although the calls of
\* one of its iterations threw.
C31_Witness ==
    /\ jobStatus = "completed"
    /\ lastResult.processed = MaxBacklog
    /\ lastResult.failed >= 1
    /\ batch = <<>>

\* An order is in the batch of the run in progress.
Selected(o) == jobStatus = "running" /\ \E i \in 1..Len(batch) : batch[i].id = o

C33_AcceptedNeverBackToPending ==
    [][\A o \in OrderIds :
          (/\ jobStatus = "running"
           /\ orders[o].status = "PROCESSING"
           /\ orders[o].providerOrderId # Null) => orders'[o].status # "PENDING"]_vars

\* C34: within one process lifetime lastUpdateId never decreases, every
\* getUpdates answer taken in by a poll holds only update ids above the
\* lastUpdateId of that moment, and no callback update is passed to
\* processCallbackQuery more than once.
C34_UpdatesPassedOnce ==
    /\ [](\A u \in 1..MaxUpdates : passed[u] <= 1)
    /\ [][/\ lastUpdateId' >= lastUpdateId
          /\ (pollPc = "fetch" /\ pollPc' = "processing")
                => \A i \in 1..Len(pending') : pending'[i].update_id > lastUpdateId]_vars

\* Two updates have gone through the loop in two polls, each passed once, and
\* lastUpdateId stands at the later one.
C34_Witness ==
    /\ Len(updates) = 2
    /\ lastUpdateId = 2
    /\ passed[1] = 1
    /\ passed[2] = 1
    /\ pollPc = "idle"

\* The request a callback update is about, or Null.
Target(u) ==
    IF u \in 1..Len(updates) THEN findUnique(Element(split(updates[u].data), 2))
    ELSE Null

\* Whether update u is about a request that is still PENDING.
StillPending(u) ==
    IF Target(u) \in DepositIds THEN deposits[Target(u)].status = "PENDING" ELSE FALSE

\* C35: no approval callback is lost: an update that was passed to
\* processCallbackQuery while its request is still PENDING is in the end
\* applied (the request leaves PENDING) or is fetched and passed on again,
\* also when the processing throws before the store transaction commits.
C35_NoCallbackLost ==
    \A u \in 1..MaxUpdates :
        (passed[u] >= 1 /\ StillPending(u)) ~> (~StillPending(u) \/ passed[u] >= 2)

\* C36: at most one poll body runs at a time; a tick that arrives during a
\* poll returns at once and fetches nothing; and isPolling is false again
\* after every way out of the body (relay disabled, success, error).
C36_OnePollAtATime ==
    /\ [](/\ polls <= 1
          /\ isPolling <=> polls = 1
          /\ pollPc = "idle" <=> ~isPolling)
    /\ [][(isPolling /\ pollTelegramUpdates)
             => UNCHANGED <<isPolling, pollPc, pending, polls, lastUpdateId,
                            passed>>]_vars

\* A tick has been turned away while the poll in flight is going through its
\* batch.
C36_Witness ==
    /\ pollSkipped
    /\ isPolling
    /\ pollPc = "processing"
    /\ pending # <<>>
    /\ polls = 1

\* C37: once invalidateCache has run, neither cache holds and neither route
\* sends data that the store had read out before that invalidation, also for
\* a request whose read was in flight when the invalidation ran.
C37_NothingFromBeforeInvalidation ==
    /\ [](/\ servicesCache.set => servicesCache.readAt = invalidations
          /\ serviceDetailCache.set => serviceDetailCache.readAt = invalidations)
    /\ [][(served' # served /\ served'.status = 200)
             => served'.readAt = invalidations]_vars

\* The number of orderSync entries of the history with the given status.
Entries(status) ==
    Len(SelectSeq(jobHistory,
                  LAMBDA e : e.jobName = "orderSync" /\ e.status = status))

\* C38: every run of the order-status sync that gets past the guard adds
\* exactly one to orderSync.totalRuns and, once it has ended, has put exactly
\* one entry into the history, with status 'completed' or 'failed';
\* totalErrors counts the runs that failed as a whole and is left alone by
\* the failure of a single order; and the result of a completed run has
\* updated + failed <= processed.
C38_RunBookkeeping ==
    /\ [](/\ Entries("completed") + Entries("failed") = totalRuns - executions
          /\ Len(jobHistory) = totalRuns - executions
          /\ totalErrors = Entries("failed")
          /\ jobStatus = "completed"
                => lastResult.updated + lastResult.failed <= lastResult.processed)
    /\ [][/\ totalRuns' # totalRuns =>
               (~alreadyRunning /\ totalRuns' = totalRuns + 1)
          /\ failed' > failed => totalErrors' = totalErrors
          /\ totalErrors' # totalErrors =>
               (totalErrors' = totalErrors + 1 /\ jobStatus' = "failed")]_vars

\* Two runs have ended: one went through its batch with one order updated and
\* one order failed, the other failed as a whole.
C38_Witness ==
    /\ totalRuns = 2
    /\ totalErrors = 1
    /\ jobStatus = "failed"
    /\ Len(jobHistory) = 2
    /\ jobHistory[1].status = "failed"
    /\ jobHistory[2].status = "completed"
    /\ lastResult = [processed |-> 2, updated |-> 1, failed |-> 1]

====
